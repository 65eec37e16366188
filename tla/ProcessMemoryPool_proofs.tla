---------------------- MODULE ProcessMemoryPool_proofs ----------------------
(***************************************************************************)
(* Proofs about ProcessMemoryPool, for every number of pages and pids: its *)
(* types, one owner per page, the search, and that the pool implements     *)
(* PageOwnership: under the same discipline every operation of the pool is *)
(* one step of the owners, or none.                                        *)
(***************************************************************************)
EXTENDS ProcessMemoryPool, SequenceTheorems, WellFoundedInduction, TLAPS

(* What removing an element of a list leaves: the order of the others.     *)
LEMMA RemoveAtKeepsOthers ==
  ASSUME NEW S, NEW s \in Seq(S), NEW k \in 1..Len(s)
  PROVE  /\ RemoveAt(s, k) \in Seq(S)
         /\ Len(RemoveAt(s, k)) = Len(s) - 1
         /\ \A i \in 1..Len(s) - 1 :
              RemoveAt(s, k)[i] = s[IF i < k THEN i ELSE i + 1]
<1> DEFINE left  == SubSeq(s, 1, k - 1)
           right == SubSeq(s, k + 1, Len(s))
<1>0. Len(s) \in Nat
  BY LenProperties
<1>1. /\ left \in Seq(S) /\ Len(left) = k - 1
      /\ \A i \in 1..k - 1 : left[i] = s[i]
  BY SubSeqProperties, LenProperties
<1>2. /\ right \in Seq(S) /\ Len(right) = Len(s) - k
      /\ \A i \in 1..Len(s) - k : right[i] = s[k + i]
  BY SubSeqProperties, LenProperties
<1>3. RemoveAt(s, k) = left \o right
  BY DEF RemoveAt
<1> HIDE DEF left, right
<1>4. /\ left \o right \in Seq(S)
      /\ Len(left \o right) = Len(left) + Len(right)
      /\ \A i \in 1..Len(left) + Len(right) :
           (left \o right)[i] = IF i =< Len(left) THEN left[i] ELSE right[i - Len(left)]
  BY <1>1, <1>2, ConcatProperties
<1>5. Len(left) + Len(right) = Len(s) - 1
  BY <1>0, <1>1, <1>2
<1>6. ASSUME NEW i \in 1..Len(s) - 1
      PROVE  (left \o right)[i] = s[IF i < k THEN i ELSE i + 1]
  <2>1. CASE i < k
    BY <1>0, <1>1, <1>4, <1>5, <2>1
  <2>2. CASE ~(i < k)
    <3>1. i - (k - 1) \in 1..Len(s) - k /\ k + (i - (k - 1)) = i + 1
      BY <1>0, <2>2
    <3>2. (left \o right)[i] = right[i - (k - 1)]
      BY <1>0, <1>1, <1>4, <1>5, <2>2
    <3>3. QED
      BY <1>2, <2>2, <3>1, <3>2
  <2>3. QED
    BY <2>1, <2>2
<1>7. QED
  BY <1>3, <1>4, <1>5, <1>6

-----------------------------------------------------------------------------
(* The type invariant alone is not inductive: a chunk found by             *)
(* create_process must still lie in the pool when it is recorded.          *)
JobsInPool ==
  \A p \in Pid : job[p] # NoJob => job[p].start + job[p].len =< PageCount

TypeInv == TypeOK /\ JobsInPool

(* The empty pool is well typed.                                           *)
LEMMA InitTypeInv == Init => TypeInv
BY EmptySeq DEF Init, TypeInv, TypeOK, JobsInPool

(* A run that fits is a chunk of the pool, and its pages are pages.        *)
LEMMA FitIsChunk ==
  ASSUME NEW i \in Page, NEW n \in 1..PageCount, i + n =< PageCount
  PROVE  /\ [start |-> i, len |-> n] \in Chunk
         /\ Run(i, n) \subseteq Page
  BY PageCountAssumption DEF Page, Chunk, Run

(* Every operation keeps the pool well typed.                              *)
LEMMA NextTypeInv == TypeInv /\ [Next]_vars => TypeInv'
<1> SUFFICES ASSUME TypeInv, [Next]_vars PROVE TypeInv'
  OBVIOUS
<1> USE DEF TypeInv
<1>1. ASSUME NEW p \in Pid, NEW n \in 1..PageCount, AllocatePages(p, n)
      PROVE  TypeInv'
  <2>1. PICK i \in Page :
          /\ FirstFit(i, n)
          /\ page_bitmap' = page_bitmap \cup Run(i, n)
          /\ memory_map' = [memory_map EXCEPT ![p] = Append(@, [start |-> i, len |-> n])]
    BY <1>1 DEF AllocatePages
  <2>2. [start |-> i, len |-> n] \in Chunk /\ Run(i, n) \subseteq Page
    BY <2>1, FitIsChunk DEF FirstFit, Fits
  <2>3. memory_map' \in [Pid -> Seq(Chunk)]
    BY <2>1, <2>2, AppendProperties DEF TypeOK
  <2>4. QED
    BY <1>1, <2>1, <2>2, <2>3 DEF AllocatePages, TypeOK, JobsInPool
<1>2. ASSUME NEW p \in Pid, NEW n \in 1..PageCount, AllocatePagesForgotten(p, n)
      PROVE  TypeInv'
  <2>1. PICK i \in Page : FirstFit(i, n) /\ page_bitmap' = page_bitmap \cup Run(i, n)
    BY <1>2 DEF AllocatePagesForgotten
  <2>2. Run(i, n) \subseteq Page
    BY <2>1, FitIsChunk DEF FirstFit, Fits
  <2>3. QED
    BY <1>2, <2>1, <2>2 DEF AllocatePagesForgotten, TypeOK, JobsInPool
<1>3. ASSUME NEW p \in Pid, NEW n \in 1..PageCount, CreateSearch(p, n)
      PROVE  TypeInv'
  <2>1. PICK i \in Page :
          /\ FirstFit(i, n)
          /\ job' = [job EXCEPT ![p] = [start |-> i, len |-> n, seen |-> page_bitmap]]
    BY <1>3 DEF CreateSearch
  <2>2. i + n =< PageCount
    BY <2>1 DEF FirstFit, Fits
  <2>3. job' \in [Pid -> {NoJob} \cup [start : Page, len : 1..PageCount, seen : SUBSET Page]]
    BY <2>1 DEF TypeOK
  <2>4. JobsInPool'
    BY <2>1, <2>2 DEF TypeOK, JobsInPool
  <2>5. QED
    BY <1>3, <2>3, <2>4 DEF CreateSearch, TypeOK
<1>4. ASSUME NEW p \in Pid, CreateMark(p)
      PROVE  TypeInv'
  <2> DEFINE c == [start |-> job[p].start, len |-> job[p].len]
  <2>1. /\ job[p].start \in Page /\ job[p].len \in 1..PageCount
        /\ job[p].seen \subseteq Page
        /\ job[p].start + job[p].len =< PageCount
    BY <1>4 DEF CreateMark, Idle, TypeOK, JobsInPool
  <2>2. c \in Chunk /\ Pages(job[p]) \subseteq Page
    BY <2>1, FitIsChunk DEF Pages
  <2>3. memory_map' \in [Pid -> Seq(Chunk)]
    BY <1>4, <2>2, AppendProperties DEF CreateMark, TypeOK
  <2>4. page_bitmap' \subseteq Page
    BY <1>4, <2>1, <2>2 DEF CreateMark, TypeOK
  <2>5. QED
    BY <1>4, <2>3, <2>4 DEF CreateMark, TypeOK, JobsInPool
<1>5. ASSUME NEW p \in Pid, NEW page \in Page, NEW aligned \in BOOLEAN,
             NEW n \in 0..PageCount, FreePages(p, page, aligned, n)
      PROVE  TypeInv'
  <2>1. memory_map' \in [Pid -> Seq(Chunk)]
    <3>1. CASE UNCHANGED memory_map
      BY <3>1 DEF TypeOK
    <3>2. CASE \E k \in DOMAIN memory_map[p] :
                 memory_map' = [memory_map EXCEPT ![p] = RemoveAt(@, k)]
      <4>1. PICK k \in DOMAIN memory_map[p] :
              memory_map' = [memory_map EXCEPT ![p] = RemoveAt(@, k)]
        BY <3>2
      <4>2. memory_map[p] \in Seq(Chunk) /\ k \in 1..Len(memory_map[p])
        BY <4>1, LenProperties DEF TypeOK
      <4>3. RemoveAt(memory_map[p], k) \in Seq(Chunk)
        BY <4>2, RemoveAtKeepsOthers
      <4>4. QED
        BY <4>1, <4>3 DEF TypeOK
    <3>3. QED
      BY <1>5, <3>1, <3>2 DEF FreePages
  <2>2. QED
    BY <1>5, <2>1 DEF FreePages, TypeOK, JobsInPool
<1>6. ASSUME NEW p \in Pid, ReleasePagesFor(p)
      PROVE  TypeInv'
  BY <1>6, EmptySeq DEF ReleasePagesFor, TypeOK, JobsInPool
<1>7. CASE UNCHANGED vars
  BY <1>7 DEF vars, TypeOK, JobsInPool
<1>8. QED
  BY <1>1, <1>2, <1>3, <1>4, <1>5, <1>6, <1>7 DEF Next

(* Whatever programs do, the bitmap, the lists and the found chunks stay   *)
(* within the pool.                                                        *)
THEOREM TypeCorrect == Spec => []TypeOK
<1>1. TypeInv => TypeOK
  BY DEF TypeInv
<1>2. QED
  BY InitTypeInv, NextTypeInv, <1>1, PTL DEF Spec

-----------------------------------------------------------------------------
(* Programs that unmap whole chunks only and do not use create_process;    *)
(* the kernel's heap may be exhausted at any time.                         *)
Disciplined == Habits \cap {"partial", "create"} = {}

(* OneOwner is kept by the search only because owned pages are marked, and *)
(* they stay marked only because no page has two owners.                   *)
NobodyInCreate == \A p \in Pid : Idle(p)

IInv == TypeInv /\ NobodyInCreate /\ OneOwner /\ OwnedAreMarked

(* Membership in Owned, in terms of positions of the list.                 *)
LEMMA OwnedPages ==
  ASSUME NEW p \in Pid, NEW x
  PROVE  x \in Owned(p) <=> \E k \in DOMAIN memory_map[p] : x \in Pages(memory_map[p][k])
  BY DEF Owned, Chunks

(* In the empty pool nothing is owned.                                     *)
LEMMA InitIInv == Init => IInv
<1> SUFFICES ASSUME Init PROVE IInv
  OBVIOUS
<1>1. \A p \in Pid : memory_map[p] = <<>> /\ DOMAIN memory_map[p] = {}
  BY DEF Init
<1>2. OneOwner
  BY <1>1 DEF OneOwner
<1>3. OwnedAreMarked
  BY <1>1 DEF OwnedAreMarked, Owned, Chunks
<1>4. QED
  BY <1>2, <1>3, InitTypeInv DEF Init, IInv, NobodyInCreate, Idle

(* Appending a chunk of unmarked pages, and marking them, keeps IInv.      *)
LEMMA AllocateKeepsIInv ==
  ASSUME IInv, NEW p \in Pid, NEW n \in 1..PageCount, AllocatePages(p, n)
  PROVE  OneOwner' /\ OwnedAreMarked'
<1>1. PICK i \in Page :
        /\ FirstFit(i, n)
        /\ page_bitmap' = page_bitmap \cup Run(i, n)
        /\ memory_map' = [memory_map EXCEPT ![p] = Append(@, [start |-> i, len |-> n])]
  BY DEF AllocatePages
<1> DEFINE c == [start |-> i, len |-> n]
<1>2. Pages(c) = Run(i, n) /\ Pages(c) \cap page_bitmap = {}
  BY <1>1 DEF Pages, FirstFit, Fits
<1>3. ASSUME NEW q \in Pid, NEW k \in DOMAIN memory_map'[q]
      PROVE  \/ /\ k \in DOMAIN memory_map[q]
                /\ memory_map'[q][k] = memory_map[q][k]
                /\ Pages(memory_map[q][k]) \subseteq page_bitmap
             \/ /\ q = p /\ k = Len(memory_map[p]) + 1
                /\ k \notin DOMAIN memory_map[p]
                /\ memory_map'[q][k] = c
  <2>0. memory_map \in [Pid -> Seq(Chunk)] /\ c \in Chunk
    BY <1>1, FitIsChunk DEF IInv, TypeInv, TypeOK, FirstFit, Fits
  <2>1. CASE q # p
    BY <1>1, <2>0, <2>1, OwnedPages DEF IInv, OwnedAreMarked
  <2>2. CASE q = p
    <3>1. memory_map'[p] = Append(memory_map[p], c)
      BY <1>1, <2>0
    <3>2. /\ DOMAIN memory_map[p] = 1..Len(memory_map[p]) /\ Len(memory_map[p]) \in Nat
          /\ DOMAIN memory_map'[p] = 1..Len(memory_map[p]) + 1
      BY <2>0, <3>1, AppendProperties, LenProperties
    <3>3. /\ \A j \in 1..Len(memory_map[p]) : memory_map'[p][j] = memory_map[p][j]
          /\ memory_map'[p][Len(memory_map[p]) + 1] = c
      BY <2>0, <3>1, AppendProperties
    <3>4. CASE k = Len(memory_map[p]) + 1
      BY <2>2, <3>2, <3>3, <3>4
    <3>5. CASE k \in 1..Len(memory_map[p])
      BY <2>2, <3>2, <3>3, <3>5, OwnedPages DEF IInv, OwnedAreMarked
    <3>6. QED
      BY <2>2, <3>2, <3>4, <3>5
  <2>3. QED
    BY <2>1, <2>2
<1>4. OneOwner'
  <2> SUFFICES ASSUME NEW q \in Pid, NEW r \in Pid,
                      NEW k \in DOMAIN memory_map'[q], NEW m \in DOMAIN memory_map'[r],
                      <<q, k>> # <<r, m>>
               PROVE  Pages(memory_map'[q][k]) \cap Pages(memory_map'[r][m]) = {}
    BY DEF OneOwner, Pages, Run
  <2>1. CASE k \in DOMAIN memory_map[q] /\ m \in DOMAIN memory_map[r]
             /\ memory_map'[q][k] = memory_map[q][k] /\ memory_map'[r][m] = memory_map[r][m]
    BY <2>1 DEF IInv, OneOwner
  <2>2. CASE memory_map'[q][k] = c /\ memory_map'[r][m] = memory_map[r][m]
             /\ Pages(memory_map[r][m]) \subseteq page_bitmap
    BY <1>2, <2>2
  <2>3. CASE memory_map'[r][m] = c /\ memory_map'[q][k] = memory_map[q][k]
             /\ Pages(memory_map[q][k]) \subseteq page_bitmap
    BY <1>2, <2>3
  <2>4. QED
    BY <1>3, <2>1, <2>2, <2>3
<1>5. OwnedAreMarked'
  <2> SUFFICES ASSUME NEW q \in Pid, NEW k \in DOMAIN memory_map'[q]
               PROVE  Pages(memory_map'[q][k]) \subseteq page_bitmap'
    BY DEF OwnedAreMarked, Owned, Chunks, Pages, Run
  <2>1. QED
    BY <1>1, <1>2, <1>3
<1>6. QED
  BY <1>4, <1>5

(* The chunk a disciplined munmap removes is the one it names: two chunks  *)
(* cannot start at the same page.                                          *)
LEMMA FreeNamesAChunk ==
  ASSUME IInv, Disciplined, NEW p \in Pid, NEW page \in Page, NEW aligned \in BOOLEAN,
         NEW n \in 0..PageCount, FreePages(p, page, aligned, n)
  PROVE  \E k \in DOMAIN memory_map[p] :
           /\ memory_map' = [memory_map EXCEPT ![p] = RemoveAt(@, k)]
           /\ page_bitmap' = page_bitmap \ Pages(memory_map[p][k])
<1> DEFINE matches == {k \in DOMAIN memory_map[p] :
                         aligned /\ memory_map[p][k].start = page}
<1>1. PICK m \in matches : memory_map[p][m].len = n
  BY DEF FreePages, Disciplined
<1>2. PICK k \in matches : memory_map' = [memory_map EXCEPT ![p] = RemoveAt(@, k)]
  BY <1>1 DEF FreePages
<1>3. memory_map[p][m] \in Chunk /\ memory_map[p][k] \in Chunk
  <2>1. memory_map[p] \in Seq(Chunk)
    BY DEF IInv, TypeInv, TypeOK
  <2>2. QED
    BY <1>1, <1>2, <2>1, LenProperties, ElementOfSeq
<1>4. page \in Pages(memory_map[p][m]) /\ page \in Pages(memory_map[p][k])
  BY <1>1, <1>2, <1>3 DEF Pages, Run, Chunk, Page
<1>5. k = m
  BY <1>1, <1>2, <1>4 DEF IInv, OneOwner
<1>6. page_bitmap' = page_bitmap \ Pages(memory_map[p][k])
  BY <1>1, <1>2, <1>5 DEF FreePages, Pages
<1>7. QED
  BY <1>2, <1>6

(* munmap of one whole chunk of the caller preserves the two properties.   *)
LEMMA FreeKeepsIInv ==
  ASSUME IInv, Disciplined, NEW p \in Pid, NEW page \in Page, NEW aligned \in BOOLEAN,
         NEW n \in 0..PageCount, FreePages(p, page, aligned, n)
  PROVE  OneOwner' /\ OwnedAreMarked'
<1>1. PICK k \in DOMAIN memory_map[p] :
        /\ memory_map' = [memory_map EXCEPT ![p] = RemoveAt(@, k)]
        /\ page_bitmap' = page_bitmap \ Pages(memory_map[p][k])
  BY FreeNamesAChunk
<1> DEFINE old(q, j) == IF q = p /\ j >= k THEN j + 1 ELSE j
<1>2. ASSUME NEW q \in Pid, NEW j \in DOMAIN memory_map'[q]
      PROVE  /\ j \in Int /\ old(q, j) \in DOMAIN memory_map[q]
             /\ <<q, old(q, j)>> # <<p, k>>
             /\ memory_map'[q][j] = memory_map[q][old(q, j)]
  <2>1. /\ memory_map \in [Pid -> Seq(Chunk)]
        /\ DOMAIN memory_map[q] = 1..Len(memory_map[q]) /\ Len(memory_map[q]) \in Nat
        /\ k \in 1..Len(memory_map[p])
    BY LenProperties DEF IInv, TypeInv, TypeOK
  <2>2. CASE q # p
    BY <1>1, <2>1, <2>2
  <2>3. CASE q = p
    <3>1. memory_map'[p] = RemoveAt(memory_map[p], k)
      BY <1>1, <2>1
    <3>2. /\ memory_map'[p] \in Seq(Chunk)
          /\ Len(memory_map'[p]) = Len(memory_map[p]) - 1
          /\ \A i \in 1..Len(memory_map[p]) - 1 :
               memory_map'[p][i] = memory_map[p][IF i < k THEN i ELSE i + 1]
      BY <2>1, <3>1, RemoveAtKeepsOthers
    <3>3. j \in 1..Len(memory_map[p]) - 1
      BY <2>3, <3>2, LenProperties
    <3>4. old(p, j) = IF j < k THEN j ELSE j + 1
      BY <2>1, <3>3
    <3>5. old(p, j) \in 1..Len(memory_map[p]) /\ old(p, j) # k
      BY <2>1, <3>3, <3>4
    <3>6. memory_map'[p][j] = memory_map[p][IF j < k THEN j ELSE j + 1]
      BY <3>2, <3>3
    <3> HIDE DEF old
    <3>7. memory_map'[p][j] = memory_map[p][old(p, j)]
      BY <3>4, <3>6
    <3>8. QED
      BY <2>1, <2>3, <3>3, <3>5, <3>7
  <2>4. QED
    BY <2>2, <2>3
<1>3. OneOwner'
  <2> SUFFICES ASSUME NEW q \in Pid, NEW r \in Pid,
                      NEW i \in DOMAIN memory_map'[q], NEW j \in DOMAIN memory_map'[r],
                      <<q, i>> # <<r, j>>
               PROVE  Pages(memory_map'[q][i]) \cap Pages(memory_map'[r][j]) = {}
    BY DEF OneOwner, Pages, Run
  <2>1. i \in Int /\ j \in Int /\ k \in Int
    BY <1>2, LenProperties DEF IInv, TypeInv, TypeOK
  <2>2. <<q, old(q, i)>> # <<r, old(r, j)>>
    BY <2>1
  <2> HIDE DEF old
  <2>3. /\ old(q, i) \in DOMAIN memory_map[q] /\ memory_map'[q][i] = memory_map[q][old(q, i)]
        /\ old(r, j) \in DOMAIN memory_map[r] /\ memory_map'[r][j] = memory_map[r][old(r, j)]
    BY <1>2
  <2>4. QED
    BY <2>2, <2>3, SMTT(20) DEF IInv, OneOwner
<1>4. OwnedAreMarked'
  <2> SUFFICES ASSUME NEW q \in Pid, NEW j \in DOMAIN memory_map'[q]
               PROVE  Pages(memory_map'[q][j]) \subseteq page_bitmap'
    BY DEF OwnedAreMarked, Owned, Chunks, Pages, Run
  <2> HIDE DEF old
  <2>1. Pages(memory_map[q][old(q, j)]) \cap Pages(memory_map[p][k]) = {}
    BY <1>2 DEF IInv, OneOwner
  <2>2. Pages(memory_map[q][old(q, j)]) \subseteq page_bitmap
    BY <1>2, OwnedPages DEF IInv, OwnedAreMarked
  <2>3. QED
    BY <1>1, <1>2, <2>1, <2>2
<1>5. QED
  BY <1>3, <1>4

(* A destroyed process takes with it the marks of its own chunks only.     *)
LEMMA ReleaseKeepsIInv ==
  ASSUME IInv, NEW p \in Pid, ReleasePagesFor(p)
  PROVE  OneOwner' /\ OwnedAreMarked'
<1>1. \A q \in Pid : memory_map'[q] = IF q = p THEN <<>> ELSE memory_map[q]
  BY DEF ReleasePagesFor, IInv, TypeInv, TypeOK
<1>2. DOMAIN <<>> = {}
  OBVIOUS
<1>3. OneOwner'
  BY <1>1, <1>2 DEF OneOwner, IInv, Pages, Run
<1>4. OwnedAreMarked'
  <2> SUFFICES ASSUME NEW q \in Pid, NEW j \in DOMAIN memory_map'[q]
               PROVE  Pages(memory_map'[q][j]) \subseteq page_bitmap'
    BY DEF OwnedAreMarked, Owned, Chunks, Pages, Run
  <2>1. q # p /\ memory_map'[q] = memory_map[q] /\ j \in DOMAIN memory_map[q]
    BY <1>1, <1>2
  <2>2. \A k \in DOMAIN memory_map[p] :
          Pages(memory_map[q][j]) \cap Pages(memory_map[p][k]) = {}
    BY <2>1 DEF IInv, OneOwner
  <2>3. Pages(memory_map[q][j]) \cap Owned(p) = {}
    BY <2>2, OwnedPages
  <2>4. Pages(memory_map[q][j]) \subseteq page_bitmap
    BY <2>1, OwnedPages DEF IInv, OwnedAreMarked
  <2>5. QED
    BY <2>1, <2>3, <2>4 DEF ReleasePagesFor
<1>5. QED
  BY <1>3, <1>4

(* Under the discipline every operation preserves the inductive invariant. *)
LEMMA NextIInv == ASSUME Disciplined PROVE IInv /\ [Next]_vars => IInv'
<1> SUFFICES ASSUME IInv, [Next]_vars PROVE IInv'
  OBVIOUS
<1>1. TypeInv'
  BY NextTypeInv DEF IInv
<1>2. ASSUME NEW p \in Pid, NEW n \in 1..PageCount, AllocatePages(p, n)
      PROVE  OneOwner' /\ OwnedAreMarked' /\ NobodyInCreate'
  BY <1>2, AllocateKeepsIInv DEF AllocatePages, IInv, NobodyInCreate, Idle
<1>3. ASSUME NEW p \in Pid, NEW n \in 1..PageCount, AllocatePagesForgotten(p, n)
      PROVE  OneOwner' /\ OwnedAreMarked' /\ NobodyInCreate'
  <2>1. memory_map' = memory_map /\ page_bitmap \subseteq page_bitmap'
    BY <1>3 DEF AllocatePagesForgotten
  <2>2. QED
    BY <1>3, <2>1 DEF AllocatePagesForgotten, IInv, NobodyInCreate, Idle, OneOwner,
                      OwnedAreMarked, Owned, Chunks, Pages, Run
<1>4. ASSUME NEW p \in Pid, NEW page \in Page, NEW aligned \in BOOLEAN,
             NEW n \in 0..PageCount, FreePages(p, page, aligned, n)
      PROVE  OneOwner' /\ OwnedAreMarked' /\ NobodyInCreate'
  BY <1>4, FreeKeepsIInv DEF FreePages, IInv, NobodyInCreate, Idle
<1>5. ASSUME NEW p \in Pid, ReleasePagesFor(p)
      PROVE  OneOwner' /\ OwnedAreMarked' /\ NobodyInCreate'
  BY <1>5, ReleaseKeepsIInv DEF ReleasePagesFor, IInv, NobodyInCreate, Idle
<1>6. \A p \in Pid : ~CreateMark(p) /\ \A n \in 1..PageCount : ~CreateSearch(p, n)
  BY DEF Disciplined, CreateSearch, CreateMark, IInv, NobodyInCreate
<1>7. ASSUME UNCHANGED vars
      PROVE  OneOwner' /\ OwnedAreMarked' /\ NobodyInCreate'
  BY <1>7 DEF vars, IInv, NobodyInCreate, Idle, OneOwner, OwnedAreMarked, Owned,
              Chunks, Pages, Run
<1>8. QED
  BY <1>1, <1>2, <1>3, <1>4, <1>5, <1>6, <1>7 DEF Next, IInv

(* Among programs that unmap whole chunks no page ever has two owners, for *)
(* any number of pages and processes, even when the kernel's heap runs out *)
(* between the marking of the pages and the recording of the chunk.        *)
THEOREM NoPageIsShared == ASSUME Disciplined PROVE Spec => []OneOwner
<1>1. IInv => OneOwner
  BY DEF IInv
<1>2. IInv /\ [Next]_vars => IInv'
  BY NextIInv
<1>3. QED
  BY InitIInv, <1>1, <1>2, PTL DEF Spec

(* ... and every page of a chunk stays marked as long as the chunk lives.  *)
THEOREM ChunksStayMarked == ASSUME Disciplined PROVE Spec => []OwnedAreMarked
<1>1. IInv => OwnedAreMarked
  BY DEF IInv
<1>2. IInv /\ [Next]_vars => IInv'
  BY NextIInv
<1>3. QED
  BY InitIInv, <1>1, <1>2, PTL DEF Spec

-----------------------------------------------------------------------------
(* The search.  The induction over the recursive function of Search is by  *)
(* the page that is nearest to the end of the pool among those where it    *)
(* would be wrong.                                                         *)
LEMMA MinIsLeast ==
  ASSUME NEW T, T \subseteq Nat, T # {}
  PROVE  Min(T) \in T /\ \A y \in T : Min(T) <= y
<1>1. PICK less : /\ IsWellFoundedOn(less, Nat)
                  /\ \A x, y \in Nat : y < x => <<y, x>> \in less
  <2>1. \A x, y \in Nat : y < x => <<y, x>> \in OpToRel(<, Nat)
    BY DEF OpToRel
  <2> QED
    BY <2>1, NatLessThanWellFounded, Zenon
<1>2. PICK x \in T : \A y \in T : ~(<<y, x>> \in less)
  BY <1>1, WFMin
<1>3. \A y \in T : x <= y
  <2> SUFFICES ASSUME NEW y \in T PROVE x <= y
    OBVIOUS
  <2>1. x \in Nat /\ y \in Nat
    OBVIOUS
  <2>2. ~(y < x)
    BY <1>1, <1>2, <2>1, Zenon
  <2> QED
    BY <2>1, <2>2
<1> QED
  BY <1>3 DEF Min

(* The lowest run of n free pages at or after a page.                      *)
FitsFrom(n, from) ==
  {i \in Page : /\ i >= from /\ Fits(i, n)
                /\ \A j \in Page : j >= from /\ Fits(j, n) => i <= j}

(* A slot that ends at a taken page, or at the end of the pool, and is too *)
(* short can be skipped: no run that fits begins in front of its end.      *)
LEMMA TooShort ==
  ASSUME NEW n \in 1..PageCount, NEW from \in Page, NEW start \in from..PageCount - 1,
         NEW last \in start..PageCount - 1, last - start < n - 1,
         from..start - 1 \subseteq page_bitmap,
         last + 1 = PageCount \/ last + 1 \in page_bitmap
  PROVE  FitsFrom(n, from) = FitsFrom(n, last + 1)
<1>1. PageCount \in Nat \ {0} /\ Page = 0..PageCount - 1
  BY PageCountAssumption DEF Page
<1>2. ASSUME NEW i \in Page, i >= from, Fits(i, n) PROVE i >= last + 1
  <2> SUFFICES ASSUME i <= last PROVE FALSE
    BY <1>1
  <2>1. i + n <= PageCount /\ Run(i, n) \cap page_bitmap = {}
    BY <1>2 DEF Fits
  <2>2. i \in Run(i, n)
    BY <1>1 DEF Run
  <2>3. i >= start
    <3>1. i \notin from..start - 1
      BY <2>1, <2>2
    <3> QED
      BY <1>1, <1>2, <3>1
  <2>4. last + 1 \in Run(i, n) /\ last + 1 # PageCount
    BY <1>1, <2>1, <2>3 DEF Run
  <2> QED
    BY <2>1, <2>4
<1>3. \A i \in Page : (i >= from /\ Fits(i, n)) <=> (i >= last + 1 /\ Fits(i, n))
  BY <1>1, <1>2
<1> QED
  BY <1>3 DEF FitsFrom

(* What get_next_free_slot finds: nothing, if nothing fits; else a slot    *)
(* that is long enough, or one to be skipped.                              *)
LEMMA SlotFacts ==
  ASSUME NEW n \in 1..PageCount, NEW from \in Page
  PROVE  \/ GetNextFreeSlot(from, n) = {} /\ FitsFrom(n, from) = {}
         \/ \E start \in Page, last \in Page :
              /\ from <= start /\ start <= last
              /\ GetNextFreeSlot(from, n) = {<<start, last>>}
              /\ \/ last - start >= n - 1 /\ FitsFrom(n, from) = {start}
                 \/ last - start < n - 1 /\ FitsFrom(n, from) = FitsFrom(n, last + 1)
<1>1. PageCount \in Nat \ {0} /\ Page = 0..PageCount - 1
  BY PageCountAssumption DEF Page
<1> DEFINE free  == {i \in from..PageCount - 1 : i \notin page_bitmap}
           start == Min(free)
           stops == {i \in Run(start, n) :
                       i = start + n - 1 \/ i = PageCount \/ i \in page_bitmap}
           end   == Min(stops)
<1>2. GetNextFreeSlot(from, n) =
        IF free = {} \/ (end = PageCount /\ end - from < n - 1) THEN {}
        ELSE {<<start, IF end = PageCount \/ end \in page_bitmap THEN end - 1 ELSE end>>}
  BY DEF GetNextFreeSlot
<1>3. CASE free = {}
  <2>1. ASSUME NEW i \in Page, i >= from, Fits(i, n) PROVE FALSE
    <3>1. i \in Run(i, n) /\ i \in from..PageCount - 1
      BY <1>1, <2>1 DEF Run
    <3> QED
      BY <1>3, <2>1, <3>1 DEF Fits
  <2> QED
    BY <1>2, <1>3, <2>1 DEF FitsFrom
<1>4. CASE free # {}
  <2>1. /\ start \in from..PageCount - 1 /\ start \notin page_bitmap
        /\ \A i \in free : start <= i
    <3>1. free \subseteq Nat
      BY <1>1
    <3> HIDE DEF free
    <3>2. start \in free /\ \A i \in free : start <= i
      BY <1>4, <3>1, MinIsLeast
    <3> QED
      BY <3>2 DEF free
  <2>2. from..start - 1 \subseteq page_bitmap
    <3> HIDE DEF start
    <3> QED
      BY <1>1, <2>1
  <2> HIDE DEF start, free
  <2>3. end \in stops /\ \A i \in stops : end <= i
    <3>1. stops \subseteq Nat
      BY <1>1, <2>1 DEF Run
    <3>2. start + n - 1 \in stops
      BY <1>1, <2>1 DEF Run
    <3> HIDE DEF stops
    <3> QED
      BY <3>1, <3>2, MinIsLeast
  <2> HIDE DEF end
  <2>4. end \in start..start + n - 1
    BY <1>1, <2>1, <2>3 DEF Run
  <2>5. \A i \in start..end - 1 : i \notin page_bitmap /\ i # PageCount
    <3> SUFFICES ASSUME NEW i \in start..end - 1 PROVE i \notin stops
      BY <1>1, <2>1, <2>4 DEF Run
    <3> QED
      BY <1>1, <2>1, <2>3, <2>4
  <2>6. end <= PageCount
    <3> SUFFICES ASSUME end > PageCount PROVE FALSE
      BY <1>1, <2>1, <2>4
    <3> QED
      BY <1>1, <2>1, <2>4, <2>5
  <2>7. CASE end = PageCount
    <3> DEFINE last == PageCount - 1
    <3>1. last \in start..PageCount - 1 /\ last - start < n - 1 /\ last + 1 = PageCount
      BY <1>1, <2>1, <2>4, <2>7
    <3>2. FitsFrom(n, from) = FitsFrom(n, last + 1)
      BY <2>1, <2>2, <3>1, TooShort
    <3>3. FitsFrom(n, last + 1) = {}
      BY <1>1 DEF FitsFrom
    <3>4. CASE end - from < n - 1
      BY <1>2, <2>7, <3>2, <3>3, <3>4
    <3>5. CASE ~(end - from < n - 1)
      <4>1. GetNextFreeSlot(from, n) = {<<start, last>>}
        BY <1>2, <1>4, <2>7, <3>5
      <4> QED
        BY <1>1, <2>1, <3>1, <3>2, <4>1
    <3> QED
      BY <3>4, <3>5
  <2>8. CASE end # PageCount /\ end \in page_bitmap
    <3> DEFINE last == end - 1
    <3>1. GetNextFreeSlot(from, n) = {<<start, last>>}
      BY <1>2, <1>4, <2>8
    <3>2. end # start
      BY <2>1, <2>8
    <3>3. /\ last \in start..PageCount - 1 /\ last - start < n - 1
          /\ last + 1 = end /\ last + 1 \in page_bitmap
      BY <1>1, <2>1, <2>4, <2>6, <2>8, <3>2
    <3>4. FitsFrom(n, from) = FitsFrom(n, last + 1)
      <4> HIDE DEF last
      <4> QED
        BY <2>1, <2>2, <3>3, TooShort
    <3> QED
      BY <1>1, <2>1, <3>1, <3>3, <3>4
  <2>9. CASE end # PageCount /\ end \notin page_bitmap
    <3>1. GetNextFreeSlot(from, n) = {<<start, end>>}
      BY <1>2, <1>4, <2>9
    <3>2. end = start + n - 1 /\ end \in Page
      BY <1>1, <2>1, <2>3, <2>4, <2>6, <2>9
    <3>3. start \in Page /\ start >= from /\ Fits(start, n)
      <4>1. Run(start, n) \cap page_bitmap = {}
        <5> SUFFICES ASSUME NEW i \in start..end PROVE i \notin page_bitmap
          BY <1>1, <2>1, <3>2 DEF Run
        <5>1. i = end \/ i \in start..end - 1
          BY <1>1, <2>1, <3>2
        <5> QED
          BY <2>5, <2>9, <5>1
      <4> QED
        BY <1>1, <2>1, <3>2, <4>1 DEF Fits
    <3>4. ASSUME NEW i \in Page, i >= from, Fits(i, n) PROVE start <= i
      <4>1. i \in Run(i, n)
        BY <1>1 DEF Run
      <4>2. i \in free
        BY <1>1, <3>4, <4>1 DEF Fits, free
      <4> QED
        BY <2>1, <4>2
    <3>5. FitsFrom(n, from) = {start}
      <4>1. start \in FitsFrom(n, from)
        BY <3>3, <3>4 DEF FitsFrom
      <4>2. ASSUME NEW i \in FitsFrom(n, from) PROVE i = start
        <5>1. i \in Page /\ start <= i /\ i <= start
          BY <3>3, <3>4 DEF FitsFrom
        <5> QED
          BY <1>1, <3>3, <5>1
      <4> QED
        BY <4>1, <4>2
    <3> QED
      BY <1>1, <2>1, <3>1, <3>2, <3>3, <3>5
  <2> QED
    BY <2>7, <2>8, <2>9
<1> QED
  BY <1>3, <1>4

(* One turn of the loop, when the turns from later pages are right.        *)
Turn(g, n, from) ==
  IF from = PageCount THEN {}
  ELSE UNION {IF slot[2] - slot[1] >= n - 1 THEN {slot[1]}
              ELSE g[slot[2] + 1] : slot \in GetNextFreeSlot(from, n)}

LEMMA TurnIsRight ==
  ASSUME NEW n \in 1..PageCount, NEW from \in 0..PageCount, NEW g,
         \A m \in from + 1..PageCount : g[m] = FitsFrom(n, m)
  PROVE  Turn(g, n, from) = FitsFrom(n, from)
<1>1. PageCount \in Nat \ {0} /\ Page = 0..PageCount - 1
  BY PageCountAssumption DEF Page
<1>2. CASE from = PageCount
  <2>1. FitsFrom(n, from) = {}
    BY <1>1, <1>2 DEF FitsFrom
  <2> QED
    BY <1>2, <2>1 DEF Turn
<1>3. CASE from # PageCount
  <2> DEFINE found(slot) == IF slot[2] - slot[1] >= n - 1 THEN {slot[1]} ELSE g[slot[2] + 1]
  <2>1. from \in Page
    BY <1>1, <1>3
  <2>2. Turn(g, n, from) = UNION {found(slot) : slot \in GetNextFreeSlot(from, n)}
    BY <1>3 DEF Turn
  <2>3. CASE GetNextFreeSlot(from, n) = {} /\ FitsFrom(n, from) = {}
    BY <2>2, <2>3
  <2>4. ASSUME NEW start \in Page, NEW last \in Page, from <= start, start <= last,
               GetNextFreeSlot(from, n) = {<<start, last>>},
               \/ last - start >= n - 1 /\ FitsFrom(n, from) = {start}
               \/ last - start < n - 1 /\ FitsFrom(n, from) = FitsFrom(n, last + 1)
        PROVE  Turn(g, n, from) = FitsFrom(n, from)
    <3>1. found(<<start, last>>) = IF last - start >= n - 1 THEN {start} ELSE g[last + 1]
      OBVIOUS
    <3> HIDE DEF found
    <3>2. Turn(g, n, from) = found(<<start, last>>)
      BY <2>2, <2>4
    <3>3. last + 1 \in from + 1..PageCount
      BY <1>1, <2>4
    <3>4. last - start \in Int /\ n - 1 \in Int
      BY <1>1
    <3>5. CASE last - start >= n - 1
      <4>1. FitsFrom(n, from) = {start}
        BY <2>4, <3>4, <3>5
      <4> QED
        BY <3>1, <3>2, <3>5, <4>1
    <3>6. CASE ~(last - start >= n - 1)
      <4>1. FitsFrom(n, from) = FitsFrom(n, last + 1)
        BY <2>4, <3>6
      <4> QED
        BY <3>1, <3>2, <3>3, <3>6, <4>1
    <3> QED
      BY <3>5, <3>6
  <2> QED
    BY <2>1, <2>3, <2>4, SlotFacts
<1> QED
  BY <1>2, <1>3

LEMMA SearchFindsFit ==
  ASSUME NEW n \in 1..PageCount
  PROVE  Search(n) = FitsFrom(n, 0)
<1> DEFINE Solves(g) == g = [from \in 0..PageCount |-> Turn(g, n, from)]
           right     == [from \in 0..PageCount |-> FitsFrom(n, from)]
           search    == CHOOSE g : Solves(g)
<1>1. PageCount \in Nat \ {0}
  BY PageCountAssumption
<1>2. Search(n) = search[0]
  BY DEF Search, Turn
<1>3. Solves(right)
  <2>1. \A from \in 0..PageCount : Turn(right, n, from) = FitsFrom(n, from)
    <3> SUFFICES ASSUME NEW from \in 0..PageCount
                 PROVE  Turn(right, n, from) = FitsFrom(n, from)
      OBVIOUS
    <3>1. \A m \in from + 1..PageCount : right[m] = FitsFrom(n, m)
      BY <1>1
    <3> HIDE DEF right
    <3> QED
      BY <3>1, TurnIsRight
  <2> HIDE DEF right
  <2>2. [from \in 0..PageCount |-> Turn(right, n, from)]
          = [from \in 0..PageCount |-> FitsFrom(n, from)]
    BY <2>1
  <2> QED
    BY <2>2 DEF right
<1>4. Solves(search)
  <2> HIDE DEF Solves
  <2> QED
    BY <1>3, Zenon
<1> HIDE DEF search
<1>5. \A from \in 0..PageCount : search[from] = Turn(search, n, from)
  BY <1>4
<1> HIDE DEF Solves
<1>6. \A from \in 0..PageCount : search[from] = FitsFrom(n, from)
  <2> DEFINE wrong == {k \in 0..PageCount : search[PageCount - k] # FitsFrom(n, PageCount - k)}
  <2>1. wrong = {}
    <3> SUFFICES ASSUME wrong # {} PROVE FALSE
      OBVIOUS
    <3>1. wrong \subseteq Nat
      BY <1>1
    <3>2. Min(wrong) \in wrong /\ \A y \in wrong : Min(wrong) <= y
      <4> HIDE DEF wrong
      <4> QED
        BY <3>1, MinIsLeast
    <3> DEFINE k == Min(wrong)
               from == PageCount - k
    <3>3. k \in 0..PageCount /\ from \in 0..PageCount /\ search[from] # FitsFrom(n, from)
      <4> HIDE DEF k
      <4> QED
        BY <1>1, <3>2 DEF k
    <3> HIDE DEF k
    <3>4. \A m \in from + 1..PageCount : search[m] = FitsFrom(n, m)
      <4> SUFFICES ASSUME NEW m \in from + 1..PageCount PROVE search[m] = FitsFrom(n, m)
        OBVIOUS
      <4>1. PageCount - m \in 0..PageCount /\ ~(k <= PageCount - m)
            /\ PageCount - (PageCount - m) = m
        BY <1>1, <3>3
      <4>2. PageCount - m \notin wrong
        BY <3>2, <4>1 DEF k
      <4> QED
        BY <4>1, <4>2
    <3> HIDE DEF from
    <3>5. Turn(search, n, from) = FitsFrom(n, from)
      BY <3>3, <3>4, TurnIsRight
    <3> QED
      BY <1>5, <3>3, <3>5
  <2> SUFFICES ASSUME NEW from \in 0..PageCount PROVE search[from] = FitsFrom(n, from)
    OBVIOUS
  <2>2. PageCount - from \in 0..PageCount /\ PageCount - (PageCount - from) = from
    BY <1>1
  <2> QED
    BY <2>1, <2>2
<1>7. 0 \in 0..PageCount
  BY <1>1
<1> QED
  BY <1>2, <1>6, <1>7

(* Whatever pages are taken, and whatever processes do: the search, which  *)
(* skips from slot to slot, finds the lowest run of free pages that is     *)
(* long enough, and nothing only if there is none.                         *)
THEOREM SearchFindsFirstFit == Spec => []SearchIsFirstFit
<1>1. SearchIsFirstFit
  <2> SUFFICES ASSUME NEW n \in 1..PageCount
               PROVE  Search(n) = {i \in Page : FirstFit(i, n)}
    BY DEF SearchIsFirstFit
  <2>1. \A i \in Page : i >= 0
    BY PageCountAssumption DEF Page
  <2>2. FitsFrom(n, 0) = {i \in Page : FirstFit(i, n)}
    BY <2>1 DEF FitsFrom, FirstFit
  <2> QED
    BY <2>2, SearchFindsFit
<1> QED
  BY <1>1, PTL
-----------------------------------------------------------------------------
(* The pool implements PageOwnership.                                      *)
Holder == Pid \cup {"nobody", "lost"}

(* What the refinement mapping means: a page belongs to the process one of *)
(* whose chunks has it, and to nobody exactly if it is not marked.         *)
OwnerOwns ==
  /\ Owner \in [Page -> Holder]
  /\ \A x \in Page :
       /\ \A p \in Pid : Owner[x] = p <=> x \in Owned(p)
       /\ Owner[x] = "nobody" <=> x \notin page_bitmap

(* No page is in chunks of two processes.                                  *)
LEMMA OwnerIsUnique ==
  ASSUME IInv, NEW p \in Pid, NEW q \in Pid, NEW x \in Owned(p), x \in Owned(q)
  PROVE  p = q
<1>1. PICK k \in DOMAIN memory_map[p] : x \in Pages(memory_map[p][k])
  BY OwnedPages
<1>2. PICK m \in DOMAIN memory_map[q] : x \in Pages(memory_map[q][m])
  BY OwnedPages
<1> QED
  BY <1>1, <1>2 DEF IInv, OneOwner

(* The choice in Owner is therefore none.                                  *)
LEMMA OwnerIsWhoOwns == IInv => OwnerOwns
<1> SUFFICES ASSUME IInv PROVE OwnerOwns
  OBVIOUS
<1>1. ASSUME NEW x \in Page, NEW p \in Pid, x \in Owned(p)
      PROVE  Owner[x] = p /\ x \in page_bitmap
  <2>1. \A q \in Pid : x \in Owned(q) => q = p
    BY <1>1, OwnerIsUnique
  <2>2. (CHOOSE q \in Pid : x \in Owned(q)) = p
    BY <1>1, <2>1
  <2>3. Owner[x] = p
    BY <1>1, <2>2 DEF Owner
  <2> QED
    BY <1>1, <2>3 DEF IInv, OwnedAreMarked
<1>2. ASSUME NEW x \in Page, \A p \in Pid : x \notin Owned(p)
      PROVE  Owner[x] = IF x \in page_bitmap THEN "lost" ELSE "nobody"
  BY <1>2 DEF Owner
<1>3. ASSUME NEW x \in Page
      PROVE  /\ Owner[x] \in Holder
             /\ \A p \in Pid : Owner[x] = p <=> x \in Owned(p)
             /\ Owner[x] = "nobody" <=> x \notin page_bitmap
  <2>1. CASE \E p \in Pid : x \in Owned(p)
    <3>1. PICK p \in Pid : x \in Owned(p)
      BY <2>1
    <3>2. Owner[x] = p /\ x \in page_bitmap
      BY <1>1, <3>1
    <3>3. \A q \in Pid : x \in Owned(q) => q = p
      BY <3>1, OwnerIsUnique
    <3> QED
      BY <3>1, <3>2, <3>3, PidAssumption DEF Holder
  <2>2. CASE \A p \in Pid : x \notin Owned(p)
    BY <1>2, <2>2, PidAssumption DEF Holder
  <2> QED
    BY <2>1, <2>2
<1>4. Owner = [x \in Page |-> Owner[x]]
  BY DEF Owner
<1>5. Owner \in [Page -> Holder]
  BY <1>3, <1>4
<1> QED
  BY <1>3, <1>5 DEF OwnerOwns

(* ... after a step as well.                                               *)
LEMMA OwnerIsWhoOwnsNext == IInv' => OwnerOwns'
BY OwnerIsWhoOwns, PTL

-----------------------------------------------------------------------------
(* Pages that change hands together: what an operation does to chunks and  *)
(* bitmap determines what it does to the owners.                           *)
LEMMA HandOver ==
  ASSUME IInv, IInv', NEW run, NEW who \in Holder,
         \A x \in Page, q \in Pid :
           x \in Owned(q)' <=> IF x \in run THEN who = q ELSE x \in Owned(q),
         \A x \in Page :
           x \in page_bitmap' <=> IF x \in run THEN who # "nobody" ELSE x \in page_bitmap
  PROVE  Owner' = [x \in Page |-> IF x \in run THEN who ELSE Owner[x]]
<1>1. OwnerOwns /\ OwnerOwns'
  BY OwnerIsWhoOwns, OwnerIsWhoOwnsNext
<1>2. /\ Owner \in [Page -> Holder] /\ Owner' \in [Page -> Holder]
  BY <1>1 DEF OwnerOwns, Page
<1>3. \A x \in Page : /\ \A q \in Pid : Owner[x] = q <=> x \in Owned(q)
                      /\ Owner[x] = "nobody" <=> x \notin page_bitmap
  BY <1>1 DEF OwnerOwns
<1>4. \A x \in Page : /\ \A q \in Pid : Owner'[x] = q <=> x \in Owned(q)'
                      /\ Owner'[x] = "nobody" <=> x \notin page_bitmap'
  BY <1>1 DEF OwnerOwns, Page
<1>5. ASSUME NEW x \in Page
      PROVE  Owner'[x] = IF x \in run THEN who ELSE Owner[x]
  <2> DEFINE then == IF x \in run THEN who ELSE Owner[x]
  <2>1. then \in Holder /\ Owner'[x] \in Holder
    BY <1>2
  <2>2. \A q \in Pid : Owner'[x] = q <=> then = q
    BY <1>3, <1>4
  <2>3. Owner'[x] = "nobody" <=> then = "nobody"
    BY <1>3, <1>4
  <2> HIDE DEF then
  <2>4. Owner'[x] = then
    BY <2>1, <2>2, <2>3 DEF Holder
  <2> QED
    BY <2>4 DEF then
<1> QED
  BY <1>2, <1>5

(* What a process owns after it was given a chunk.                         *)
LEMMA OwnedWithChunk ==
  ASSUME IInv, NEW p \in Pid, NEW c \in Chunk,
         memory_map' = [memory_map EXCEPT ![p] = Append(@, c)]
  PROVE  \A x \in Page, q \in Pid :
           x \in Owned(q)' <=> x \in Owned(q) \/ (q = p /\ x \in Pages(c))
<1>1. memory_map \in [Pid -> Seq(Chunk)]
  BY DEF IInv, TypeInv, TypeOK
<1>2. ASSUME NEW q \in Pid, q # p
      PROVE  Owned(q)' = Owned(q)
  BY <1>1, <1>2 DEF Owned, Chunks, Pages, Run
<1>3. /\ memory_map'[p] = Append(memory_map[p], c)
      /\ memory_map[p] \in Seq(Chunk)
  BY <1>1
<1>4. /\ Len(memory_map[p]) \in Nat
      /\ DOMAIN memory_map[p] = 1..Len(memory_map[p])
      /\ DOMAIN memory_map'[p] = 1..Len(memory_map[p]) + 1
      /\ \A j \in 1..Len(memory_map[p]) : memory_map'[p][j] = memory_map[p][j]
      /\ memory_map'[p][Len(memory_map[p]) + 1] = c
  BY <1>3, AppendProperties, LenProperties
<1>5. Chunks(p)' = Chunks(p) \cup {c}
  <2>1. ASSUME NEW k \in DOMAIN memory_map'[p]
        PROVE  memory_map'[p][k] \in Chunks(p) \cup {c}
    <3>1. k \in 1..Len(memory_map[p]) \/ k = Len(memory_map[p]) + 1
      BY <1>4
    <3> QED
      BY <1>4, <3>1 DEF Chunks
  <2>2. ASSUME NEW k \in DOMAIN memory_map[p]
        PROVE  memory_map[p][k] \in Chunks(p)'
    <3>1. k \in DOMAIN memory_map'[p] /\ memory_map'[p][k] = memory_map[p][k]
      BY <1>4
    <3> QED
      BY <3>1 DEF Chunks
  <2>3. c \in Chunks(p)'
    <3>1. Len(memory_map[p]) + 1 \in DOMAIN memory_map'[p]
      BY <1>4
    <3> QED
      BY <1>4, <3>1 DEF Chunks
  <2> QED
    BY <2>1, <2>2, <2>3 DEF Chunks
<1>6. Owned(p)' = Owned(p) \cup Pages(c)
  BY <1>5 DEF Owned, Pages, Run
<1> QED
  BY <1>2, <1>6

(* What a process owns after one of its chunks left the list: the others   *)
(* do not share pages with it.                                             *)
LEMMA OwnedWithoutChunk ==
  ASSUME IInv, NEW p \in Pid, NEW k \in DOMAIN memory_map[p],
         memory_map' = [memory_map EXCEPT ![p] = RemoveAt(@, k)]
  PROVE  \A x \in Page, q \in Pid :
           x \in Owned(q)' <=> x \in Owned(q) /\ x \notin Pages(memory_map[p][k])
<1>1. memory_map \in [Pid -> Seq(Chunk)]
  BY DEF IInv, TypeInv, TypeOK
<1>2. ASSUME NEW q \in Pid, q # p
      PROVE  Owned(q)' = Owned(q)
  BY <1>1, <1>2 DEF Owned, Chunks, Pages, Run
<1>3. /\ memory_map'[p] = RemoveAt(memory_map[p], k)
      /\ memory_map[p] \in Seq(Chunk)
  BY <1>1
<1>4. /\ Len(memory_map[p]) \in Nat
      /\ DOMAIN memory_map[p] = 1..Len(memory_map[p])
      /\ k \in 1..Len(memory_map[p])
  BY <1>3, LenProperties
<1>5. /\ memory_map'[p] \in Seq(Chunk)
      /\ Len(memory_map'[p]) = Len(memory_map[p]) - 1
      /\ \A i \in 1..Len(memory_map[p]) - 1 :
           memory_map'[p][i] = memory_map[p][IF i < k THEN i ELSE i + 1]
  BY <1>3, <1>4, RemoveAtKeepsOthers, SMTT(20)
<1>6. DOMAIN memory_map'[p] = 1..Len(memory_map[p]) - 1
  BY <1>5, LenProperties
<1>7. ASSUME NEW x
      PROVE  x \in Owned(p)' <=>
               \E m \in DOMAIN memory_map[p] : m # k /\ x \in Pages(memory_map[p][m])
  <2>1. x \in Owned(p)' <=> \E j \in DOMAIN memory_map'[p] : x \in Pages(memory_map'[p][j])
    BY DEF Owned, Chunks, Pages, Run
  <2>2. ASSUME NEW j \in DOMAIN memory_map'[p]
        PROVE  \E m \in DOMAIN memory_map[p] :
                 m # k /\ memory_map'[p][j] = memory_map[p][m]
    <3> DEFINE m == IF j < k THEN j ELSE j + 1
    <3>1. m \in DOMAIN memory_map[p] /\ m # k
      BY <1>4, <1>6
    <3>2. memory_map'[p][j] = memory_map[p][m]
      BY <1>5, <1>6
    <3> QED
      BY <3>1, <3>2
  <2>3. ASSUME NEW m \in DOMAIN memory_map[p], m # k
        PROVE  \E j \in DOMAIN memory_map'[p] : memory_map'[p][j] = memory_map[p][m]
    <3> DEFINE j == IF m < k THEN m ELSE m - 1
    <3>1. j \in 1..Len(memory_map[p]) - 1 /\ (IF j < k THEN j ELSE j + 1) = m
      BY <1>4, <2>3
    <3>2. memory_map'[p][j] = memory_map[p][IF j < k THEN j ELSE j + 1]
      BY <1>5, <3>1
    <3> HIDE DEF j
    <3>3. memory_map'[p][j] = memory_map[p][m] /\ j \in DOMAIN memory_map'[p]
      BY <1>6, <3>1, <3>2
    <3> QED
      BY <3>3
  <2> QED
    BY <2>1, <2>2, <2>3
<1>8. ASSUME NEW m \in DOMAIN memory_map[p], m # k
      PROVE  Pages(memory_map[p][m]) \cap Pages(memory_map[p][k]) = {}
  BY <1>8 DEF IInv, OneOwner
<1>9. ASSUME NEW x
      PROVE  x \in Owned(p)' <=> x \in Owned(p) /\ x \notin Pages(memory_map[p][k])
  <2>1. x \in Owned(p) <=> \E m \in DOMAIN memory_map[p] : x \in Pages(memory_map[p][m])
    BY OwnedPages
  <2> QED
    BY <1>7, <1>8, <2>1
<1>10. ASSUME NEW q \in Pid, q # p, NEW x \in Owned(q)
       PROVE  x \notin Pages(memory_map[p][k])
  BY <1>10, OwnedPages, OwnerIsUnique
<1> QED
  BY <1>2, <1>9, <1>10

-----------------------------------------------------------------------------
(* In the empty pool nobody owns a page.                                   *)
LEMMA InitImplements == Init => Ownership!Init
<1> SUFFICES ASSUME Init PROVE Ownership!Init
  OBVIOUS
<1>1. \A p \in Pid : Owned(p) = {}
  BY DEF Init, Owned, Chunks
<1>2. Owner = [x \in Page |-> "nobody"]
  BY <1>1 DEF Owner, Init
<1> QED
  BY <1>2 DEF Ownership!Init, Ownership!Page, Page

(* A fitting run is a run of PageOwnership that nobody owns.               *)
LEMMA FitIsFree ==
  ASSUME IInv, NEW i \in Page, NEW n \in 1..PageCount, FirstFit(i, n)
  PROVE  /\ i \in Ownership!Page /\ Ownership!Run(i, n) = Run(i, n)
         /\ Ownership!Run(i, n) \subseteq Ownership!Page
         /\ Run(i, n) \cap page_bitmap = {}
         /\ [start |-> i, len |-> n] \in Chunk
         /\ Ownership!OwnedBy(Run(i, n), "nobody")
<1>1. Run(i, n) \subseteq Page /\ Run(i, n) \cap page_bitmap = {}
      /\ [start |-> i, len |-> n] \in Chunk
  BY FitIsChunk DEF FirstFit, Fits
<1>2. \A x \in Run(i, n) : Owner[x] = "nobody"
  BY <1>1, OwnerIsWhoOwns DEF OwnerOwns
<1> QED
  BY <1>1, <1>2 DEF Ownership!Page, Ownership!Run, Ownership!OwnedBy, Page, Run

(* An allocation is a claim.                                               *)
LEMMA AllocateClaims ==
  ASSUME IInv, IInv', NEW p \in Pid, NEW n \in 1..PageCount, AllocatePages(p, n)
  PROVE  Ownership!Next
<1>1. PICK i \in Page :
        /\ FirstFit(i, n)
        /\ page_bitmap' = page_bitmap \cup Run(i, n)
        /\ memory_map' = [memory_map EXCEPT ![p] = Append(@, [start |-> i, len |-> n])]
  BY DEF AllocatePages
<1>2. /\ i \in Ownership!Page /\ Ownership!Run(i, n) = Run(i, n)
      /\ Ownership!Run(i, n) \subseteq Ownership!Page
      /\ Run(i, n) \cap page_bitmap = {}
      /\ [start |-> i, len |-> n] \in Chunk
      /\ Ownership!OwnedBy(Run(i, n), "nobody")
  BY <1>1, FitIsFree
<1>3. \A x \in Page, q \in Pid :
        x \in Owned(q)' <=> x \in Owned(q) \/ (q = p /\ x \in Run(i, n))
  <2>1. PICK c \in Chunk : c = [start |-> i, len |-> n]
    BY <1>2
  <2>2. memory_map' = [memory_map EXCEPT ![p] = Append(@, c)]
    BY <1>1, <2>1
  <2>3. \A x \in Page, q \in Pid :
          x \in Owned(q)' <=> x \in Owned(q) \/ (q = p /\ x \in Pages(c))
    BY <2>2, OwnedWithChunk
  <2>4. Pages(c) = Run(i, n)
    BY <2>1 DEF Pages
  <2> QED
    BY <2>3, <2>4
<1>4. \A x \in Page, q \in Pid : x \in Owned(q) => x \in page_bitmap
  BY DEF IInv, OwnedAreMarked
<1>5. \A x \in Page, q \in Pid :
        x \in Owned(q)' <=> IF x \in Run(i, n) THEN p = q ELSE x \in Owned(q)
  BY <1>2, <1>3, <1>4
<1>6. p \in Holder /\ p # "nobody"
  BY PidAssumption DEF Holder
<1>7. \A x \in Page :
        x \in page_bitmap' <=> IF x \in Run(i, n) THEN p # "nobody" ELSE x \in page_bitmap
  BY <1>1, <1>6
<1>8. Owner' = [x \in Page |-> IF x \in Run(i, n) THEN p ELSE Owner[x]]
  BY <1>5, <1>6, <1>7, HandOver
<1>9. Ownership!Claim(p, Ownership!Run(i, n))
  BY <1>2, <1>8 DEF Ownership!Claim, Ownership!Given, Ownership!Page, Page
<1> QED
  BY <1>2, <1>9 DEF Ownership!Next

(* If the heap fails the pages are lost.                                   *)
LEMMA ForgottenLoses ==
  ASSUME IInv, IInv', NEW p \in Pid, NEW n \in 1..PageCount, AllocatePagesForgotten(p, n)
  PROVE  Ownership!Next
<1>1. PICK i \in Page : FirstFit(i, n) /\ page_bitmap' = page_bitmap \cup Run(i, n)
  BY DEF AllocatePagesForgotten
<1>2. /\ i \in Ownership!Page /\ Ownership!Run(i, n) = Run(i, n)
      /\ Ownership!Run(i, n) \subseteq Ownership!Page
      /\ Run(i, n) \cap page_bitmap = {}
      /\ Ownership!OwnedBy(Run(i, n), "nobody")
  BY <1>1, FitIsFree
<1>3. \A q \in Pid : Owned(q)' = Owned(q)
  BY DEF AllocatePagesForgotten, Owned, Chunks, Pages, Run
<1>4. \A x \in Page, q \in Pid : x \in Owned(q) => x \in page_bitmap
  BY DEF IInv, OwnedAreMarked
<1>5. "lost" \in Holder /\ "lost" # "nobody" /\ "lost" \notin Pid
  BY PidAssumption DEF Holder
<1>6. \A x \in Page, q \in Pid :
        x \in Owned(q)' <=> IF x \in Run(i, n) THEN "lost" = q ELSE x \in Owned(q)
  BY <1>2, <1>3, <1>4, <1>5
<1>7. \A x \in Page :
        x \in page_bitmap' <=>
          IF x \in Run(i, n) THEN "lost" # "nobody" ELSE x \in page_bitmap
  BY <1>1, <1>5
<1>8. Owner' = [x \in Page |-> IF x \in Run(i, n) THEN "lost" ELSE Owner[x]]
  BY <1>5, <1>6, <1>7, HandOver
<1>9. Ownership!Lose(Ownership!Run(i, n))
  BY <1>2, <1>8 DEF Ownership!Lose, Ownership!Given, Ownership!Page, Page
<1> QED
  BY <1>2, <1>9 DEF Ownership!Next

(* A disciplined munmap returns the pages of one chunk of the caller.      *)
LEMMA FreeReturns ==
  ASSUME IInv, IInv', Disciplined, NEW p \in Pid, NEW page \in Page,
         NEW aligned \in BOOLEAN, NEW n \in 0..PageCount, FreePages(p, page, aligned, n)
  PROVE  Ownership!Next
<1>1. PICK k \in DOMAIN memory_map[p] :
        /\ memory_map' = [memory_map EXCEPT ![p] = RemoveAt(@, k)]
        /\ page_bitmap' = page_bitmap \ Pages(memory_map[p][k])
  BY FreeNamesAChunk
<1> DEFINE c == memory_map[p][k]
<1>2. c \in Chunk
  <2>1. memory_map[p] \in Seq(Chunk)
    BY DEF IInv, TypeInv, TypeOK
  <2> QED
    BY <2>1, LenProperties, ElementOfSeq
<1>3. /\ c.start \in Ownership!Page /\ c.len \in 1..PageCount
      /\ Ownership!Run(c.start, c.len) = Pages(c)
      /\ Pages(c) \subseteq Page
  BY <1>2, PageCountAssumption DEF Chunk, Ownership!Page, Ownership!Run, Pages, Run, Page
<1>4. \A x \in Page, q \in Pid :
        x \in Owned(q)' <=> x \in Owned(q) /\ x \notin Pages(c)
  BY <1>1, OwnedWithoutChunk
<1>5. "nobody" \in Holder /\ "nobody" \notin Pid
  BY PidAssumption DEF Holder
<1> HIDE DEF c
<1>6. \A x \in Page, q \in Pid :
        x \in Owned(q)' <=> IF x \in Pages(c) THEN "nobody" = q ELSE x \in Owned(q)
  BY <1>4, <1>5
<1>7. \A x \in Page :
        x \in page_bitmap' <=>
          IF x \in Pages(c) THEN "nobody" # "nobody" ELSE x \in page_bitmap
  BY <1>1 DEF c
<1>8. Owner' = [x \in Page |-> IF x \in Pages(c) THEN "nobody" ELSE Owner[x]]
  BY <1>5, <1>6, <1>7, HandOver
<1>9. \A x \in Pages(c) : Owner[x] = p
  <2>1. \A x \in Pages(c) : x \in Owned(p)
    BY OwnedPages DEF c
  <2> QED
    BY <1>3, <2>1, OwnerIsWhoOwns DEF OwnerOwns
<1>10. Ownership!Return(p, Ownership!Run(c.start, c.len))
  BY <1>3, <1>8, <1>9 DEF Ownership!Return, Ownership!OwnedBy, Ownership!Given,
                          Ownership!Page, Page
<1>11. Ownership!Run(c.start, c.len) \subseteq Ownership!Page
  BY <1>3 DEF Ownership!Page, Page
<1> QED
  BY <1>3, <1>10, <1>11 DEF Ownership!Next

(* A destroyed process returns all its pages.                              *)
LEMMA ReleaseReturnsAll ==
  ASSUME IInv, IInv', NEW p \in Pid, ReleasePagesFor(p)
  PROVE  Ownership!Next
<1>1. \A q \in Pid : memory_map'[q] = IF q = p THEN <<>> ELSE memory_map[q]
  BY DEF ReleasePagesFor, IInv, TypeInv, TypeOK
<1>2. Owned(p)' = {}
  <2>1. DOMAIN memory_map'[p] = {}
    BY <1>1
  <2> QED
    BY <2>1 DEF Owned, Chunks, Pages, Run
<1>3. \A q \in Pid \ {p} : Owned(q)' = Owned(q)
  BY <1>1 DEF Owned, Chunks, Pages, Run
<1>4. "nobody" \in Holder /\ "nobody" \notin Pid
  BY PidAssumption DEF Holder
<1>5. \A x \in Page, q \in Pid :
        x \in Owned(q)' <=> IF x \in Owned(p) THEN "nobody" = q ELSE x \in Owned(q)
  BY <1>2, <1>3, <1>4, OwnerIsUnique
<1>6. \A x \in Page :
        x \in page_bitmap' <=>
          IF x \in Owned(p) THEN "nobody" # "nobody" ELSE x \in page_bitmap
  BY DEF ReleasePagesFor
<1>7. Owner' = [x \in Page |-> IF x \in Owned(p) THEN "nobody" ELSE Owner[x]]
  BY <1>4, <1>5, <1>6, HandOver
<1>8. \A x \in Page : Owner[x] = p <=> x \in Owned(p)
  BY OwnerIsWhoOwns DEF OwnerOwns
<1>9. Ownership!ReturnAll(p)
  BY <1>7, <1>8 DEF Ownership!ReturnAll, Ownership!Given, Ownership!Page, Page
<1> QED
  BY <1>9 DEF Ownership!Next

(* Each step of a disciplined pool is a step of the owners or leaves them. *)
LEMMA NextImplements ==
  ASSUME Disciplined
  PROVE  IInv /\ IInv' /\ [Next]_vars => [Ownership!Next]_Owner
<1> SUFFICES ASSUME IInv, IInv', [Next]_vars PROVE Ownership!Next \/ UNCHANGED Owner
  OBVIOUS
<1>1. ASSUME NEW p \in Pid, NEW n \in 1..PageCount, AllocatePages(p, n)
      PROVE  Ownership!Next
  BY <1>1, AllocateClaims
<1>2. ASSUME NEW p \in Pid, NEW n \in 1..PageCount, AllocatePagesForgotten(p, n)
      PROVE  Ownership!Next
  BY <1>2, ForgottenLoses
<1>3. ASSUME NEW p \in Pid, NEW page \in Page, NEW aligned \in BOOLEAN,
             NEW n \in 0..PageCount, FreePages(p, page, aligned, n)
      PROVE  Ownership!Next
  BY <1>3, FreeReturns
<1>4. ASSUME NEW p \in Pid, ReleasePagesFor(p)
      PROVE  Ownership!Next
  BY <1>4, ReleaseReturnsAll
<1>5. \A p \in Pid : ~CreateMark(p) /\ \A n \in 1..PageCount : ~CreateSearch(p, n)
  BY DEF Disciplined, CreateSearch, CreateMark, IInv, NobodyInCreate
<1>6. CASE UNCHANGED vars
  BY <1>6 DEF vars, Owner, Owned, Chunks, Pages, Run
<1> QED
  BY <1>1, <1>2, <1>3, <1>4, <1>5, <1>6 DEF Next

(* Among programs that unmap whole chunks, bitmap and lists of any size,   *)
(* searched and marked as allocate_pages and free_pages do it, are one     *)
(* owner per page: pages are given only while nobody owns them and taken   *)
(* back only from their owner, and only the kernel's own heap loses any.   *)
THEOREM PoolImplementsOwnership == ASSUME Disciplined PROVE Spec => ImplementsOwnership
<1>1. IInv /\ [Next]_vars => IInv'
  BY NextIInv
<1>2. IInv /\ IInv' /\ [Next]_vars => [Ownership!Next]_Owner
  BY NextImplements
<1> QED
  BY InitIInv, InitImplements, <1>1, <1>2, PTL DEF Spec, ImplementsOwnership, Ownership!Spec
=============================================================================
