-------------------------- MODULE ProcessMemoryPool --------------------------
(***************************************************************************)
(* kernel/memory/heap/process_memory_pool.zig: the pages processes get for *)
(* their stacks and from mmap.  A bitmap says which pages are taken, a map *)
(* keeps for every pid the list of the chunks it was given.                *)
(*                                                                         *)
(* mmap, munmap, exec and the destruction of a process run with context    *)
(* switching blocked or in the switch itself, in one step.  create_process *)
(* allocates the stack of the new process without blocking it: others may  *)
(* use the pool between its search and its marking of the pages.           *)
(***************************************************************************)
EXTENDS Integers, SequencesExt

CONSTANTS
  Pid,         \* the pids of processes that use the pool
  PageCount,   \* page_count
  Habits,      \* what programs and the kernel's heap do beyond the basic use
  NoJob,       \* no create_process call is in progress
  MaxChunks    \* bound on the chunks of one pid

(* "partial"      munmap names something else than one whole chunk of the  *)
(*                caller                                                   *)
(* "create"       create_process is used                                   *)
(* "outOfMemory"  the kernel's heap has no room for the bookkeeping        *)
AllHabits == {"partial", "create", "outOfMemory"}

ASSUME PageCountAssumption == PageCount \in Nat \ {0}
ASSUME MaxChunksAssumption == MaxChunks \in Nat
ASSUME HabitsAssumption == Habits \subseteq AllHabits
ASSUME PidAssumption == {"nobody", "lost"} \cap Pid = {}
ASSUME NoJobAssumption == NoJob \notin [start : Int, len : Int, seen : SUBSET Int]

VARIABLES
  page_bitmap,   \* the pages taken
  memory_map,    \* the chunks of every pid, in the order of its list
  mapped,        \* the pids the map has an entry for
  job            \* the chunk a create_process call has found for its pid

vars == <<page_bitmap, memory_map, mapped, job>>

Page == 0..PageCount - 1

(* A ProcessMemoryEntity; addresses and lengths are counted in pages.      *)
Chunk == {c \in [start : Page, len : 1..PageCount] : c.start + c.len =< PageCount}

Run(i, n) == i..i + n - 1
Pages(c) == Run(c.start, c.len)

Chunks(p) == {memory_map[p][k] : k \in DOMAIN memory_map[p]}
Owned(p) == UNION {Pages(c) : c \in Chunks(p)}

(* Pages outside the pool are neither marked nor given out.                *)
TypeOK ==
  /\ page_bitmap \subseteq Page
  /\ memory_map \in [Pid -> Seq(Chunk)]
  /\ mapped \subseteq Pid
  /\ job \in [Pid -> {NoJob} \cup [start : Page, len : 1..PageCount, seen : SUBSET Page]]

Init ==
  /\ page_bitmap = {}
  /\ memory_map = [p \in Pid |-> <<>>]
  /\ mapped = {}
  /\ job = [p \in Pid |-> NoJob]

-----------------------------------------------------------------------------
(* Mutant: a taken page that ends the slot counts as part of it.           *)
GetNextFreeSlotTooLong(from, n) ==
  LET free  == {i \in from..PageCount - 1 : i \notin page_bitmap}
      start == Min(free)
      end   == Min({i \in Run(start, n) :
                      i = start + n - 1 \/ i = PageCount \/ i \in page_bitmap})
  IN  IF free = {} \/ (end = PageCount /\ end - from < n - 1) THEN {}
      ELSE {<<start, IF end = PageCount THEN end - 1 ELSE end>>}

(* get_next_free_slot: from the first free page at or after a page, as     *)
(* many free pages as there are up to n.  The empty set is OutOfMemory.    *)
GetNextFreeSlot(from, n) ==
  LET free  == {i \in from..PageCount - 1 : i \notin page_bitmap}
      start == Min(free)
      end   == Min({i \in Run(start, n) :
                      i = start + n - 1 \/ i = PageCount \/ i \in page_bitmap})
  IN  IF free = {} \/ (end = PageCount /\ end - from < n - 1) THEN {}
      ELSE {<<start, IF end = PageCount \/ end \in page_bitmap THEN end - 1 ELSE end>>}

(* The loop of allocate_pages, from one too short slot to the next.        *)
Search(n) ==
  LET search[from \in 0..PageCount] ==
        IF from = PageCount THEN {}
        ELSE UNION {IF slot[2] - slot[1] >= n - 1 THEN {slot[1]}
                    ELSE search[slot[2] + 1] : slot \in GetNextFreeSlot(from, n)}
  IN  search[0]

(* What the loop finds: the lowest run of n free pages.                    *)
Fits(i, n) == i + n =< PageCount /\ Run(i, n) \cap page_bitmap = {}
FirstFit(i, n) == Fits(i, n) /\ \A j \in Page : Fits(j, n) => i =< j

(* A process that create_process has not finished makes no calls.          *)
Idle(p) == job[p] = NoJob

HasRoom(p) == Len(memory_map[p]) < MaxChunks

(* Mutants: one page too many is marked; the last page is not marked.      *)
AllocatePagesLong(p, n) ==
  /\ Idle(p) /\ HasRoom(p)
  /\ \E i \in Page :
       /\ FirstFit(i, n)
       /\ page_bitmap' = page_bitmap \cup Run(i, n + 1)
       /\ memory_map' = [memory_map EXCEPT ![p] = Append(@, [start |-> i, len |-> n])]
  /\ mapped' = mapped \cup {p}
  /\ UNCHANGED job

AllocatePagesShort(p, n) ==
  /\ Idle(p) /\ HasRoom(p)
  /\ \E i \in Page :
       /\ FirstFit(i, n)
       /\ page_bitmap' = page_bitmap \cup Run(i, n - 1)
       /\ memory_map' = [memory_map EXCEPT ![p] = Append(@, [start |-> i, len |-> n])]
  /\ mapped' = mapped \cup {p}
  /\ UNCHANGED job

(* allocate_pages for mmap and for the new stack of an exec.  Requests of  *)
(* no or negative size, or that nothing fits, are answered null.           *)
AllocatePages(p, n) ==
  /\ Idle(p) /\ HasRoom(p)
  /\ \E i \in Page :
       /\ FirstFit(i, n)
       /\ page_bitmap' = page_bitmap \cup Run(i, n)
       /\ memory_map' = [memory_map EXCEPT ![p] = Append(@, [start |-> i, len |-> n])]
  /\ mapped' = mapped \cup {p}
  /\ UNCHANGED job

(* allocate_pages marks the pages before it asks the heap for the entry of *)
(* the map or the list; if either fails the pages stay marked.             *)
AllocatePagesForgotten(p, n) ==
  /\ Idle(p)
  /\ "outOfMemory" \in Habits
  /\ \E i \in Page : FirstFit(i, n) /\ page_bitmap' = page_bitmap \cup Run(i, n)
  /\ mapped' \in {mapped, mapped \cup {p}}
  /\ UNCHANGED <<memory_map, job>>

(* create_process: the search for the stack of a new process ...           *)
CreateSearch(p, n) ==
  /\ "create" \in Habits
  /\ Idle(p) /\ HasRoom(p) /\ p \notin mapped
  /\ \E i \in Page :
       /\ FirstFit(i, n)
       /\ job' = [job EXCEPT ![p] = [start |-> i, len |-> n, seen |-> page_bitmap]]
  /\ UNCHANGED <<page_bitmap, memory_map, mapped>>

(* ... and the marking.  A bit is set by reading and writing a word of the *)
(* bitmap: what others changed in the meantime may be overwritten.         *)
CreateMark(p) ==
  /\ ~Idle(p)
  /\ \E word \in {page_bitmap, job[p].seen} : page_bitmap' = word \cup Pages(job[p])
  /\ memory_map' = [memory_map EXCEPT
                      ![p] = Append(@, [start |-> job[p].start, len |-> job[p].len])]
  /\ mapped' = mapped \cup {p}
  /\ job' = [job EXCEPT ![p] = NoJob]

-----------------------------------------------------------------------------
(* free_pages for munmap: the first chunk that starts at the address, if   *)
(* there is one, leaves the list; the pages from the address on are        *)
(* cleared whoever owns them.  An address inside a page matches no chunk.  *)
(* A call for an address outside the pool, or of a pid without an entry,   *)
(* changes nothing.  Lengths that lead past the end of the pool fail an    *)
(* assertion of the bitmap and are left out.                               *)
FreePages(p, page, aligned, n) ==
  LET matches == {k \in DOMAIN memory_map[p] : aligned /\ memory_map[p][k].start = page}
  IN
    /\ Idle(p) /\ p \in mapped
    /\ page + n =< PageCount
    /\ "partial" \in Habits
         \/ \E k \in matches : memory_map[p][k].len = n
    /\ \/ matches = {} /\ UNCHANGED memory_map
       \/ \E k \in matches :
            /\ \A m \in matches : k =< m
            /\ memory_map' = [memory_map EXCEPT ![p] = RemoveAt(@, k)]
    /\ page_bitmap' = page_bitmap \ Run(page, n)
    /\ UNCHANGED <<mapped, job>>

(* Mutant: one page too many is cleared.                                   *)
ReleasePagesForOffByOne(p) ==
  /\ Idle(p) /\ p \in mapped
  /\ page_bitmap' = page_bitmap \ UNION {Run(c.start, c.len + 1) : c \in Chunks(p)}
  /\ memory_map' = [memory_map EXCEPT ![p] = <<>>]
  /\ mapped' = mapped \ {p}
  /\ UNCHANGED job

(* Mutant: the last page of every chunk stays marked.                      *)
ReleasePagesForShort(p) ==
  /\ Idle(p) /\ p \in mapped
  /\ page_bitmap' = page_bitmap \ UNION {Run(c.start, c.len - 1) : c \in Chunks(p)}
  /\ memory_map' = [memory_map EXCEPT ![p] = <<>>]
  /\ mapped' = mapped \ {p}
  /\ UNCHANGED job

(* release_pages_for, when a process is destroyed; its stack, which        *)
(* Process.deinit frees just before, is one of its chunks.                 *)
ReleasePagesFor(p) ==
  /\ Idle(p) /\ p \in mapped
  /\ page_bitmap' = page_bitmap \ Owned(p)
  /\ memory_map' = [memory_map EXCEPT ![p] = <<>>]
  /\ mapped' = mapped \ {p}
  /\ UNCHANGED job

Next ==
  \E p \in Pid :
    \/ \E n \in 1..PageCount :
         AllocatePages(p, n) \/ AllocatePagesForgotten(p, n) \/ CreateSearch(p, n)
    \/ CreateMark(p)
    \/ \E page \in Page, aligned \in BOOLEAN, n \in 0..PageCount :
         FreePages(p, page, aligned, n)
    \/ ReleasePagesFor(p)

Spec == Init /\ [][Next]_vars

-----------------------------------------------------------------------------
(* Properties.                                                             *)

(* No page belongs to two chunks, of one process or of two.                *)
OneOwner ==
  \A p, q \in Pid : \A k \in DOMAIN memory_map[p], m \in DOMAIN memory_map[q] :
    <<p, k>> # <<q, m>> => Pages(memory_map[p][k]) \cap Pages(memory_map[q][m]) = {}

(* process_memory_pool.zig:24, "Only one process is owner of memory chunk":*)
(* no page belongs to chunks of two processes.                             *)
OneProcessOwns ==
  \A p, q \in Pid : p # q => Owned(p) \cap Owned(q) = {}

(* The pages of every chunk are marked, so that none is given out again.   *)
OwnedAreMarked == \A p \in Pid : Owned(p) \subseteq page_bitmap

(* The search skips from slot to slot, yet it fails only if no n free      *)
(* pages lie side by side and finds the lowest run if they do.             *)
SearchIsFirstFit ==
  \A n \in 1..PageCount : Search(n) = {i \in Page : FirstFit(i, n)}

(* The owner of a page: the process one of whose chunks contains it; a     *)
(* page that is marked and nobody's is lost.                               *)
Owner == [i \in Page |->
            IF \E p \in Pid : i \in Owned(p) THEN CHOOSE p \in Pid : i \in Owned(p)
            ELSE IF i \in page_bitmap THEN "lost" ELSE "nobody"]

(* The pool implements PageOwnership: pages change hands only through the  *)
(* pool, come back when they are unmapped or their owner is destroyed, and *)
(* are lost only to a failure of the kernel's own heap.                    *)
Ownership == INSTANCE PageOwnership WITH owner <- Owner, Nobody <- "nobody", Lost <- "lost"
ImplementsOwnership == Ownership!Spec
=============================================================================
