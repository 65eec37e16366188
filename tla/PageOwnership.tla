---------------------------- MODULE PageOwnership ----------------------------
(***************************************************************************)
(* What the pool of process memory promises, without its bitmap and lists: *)
(* every page has one owner, pages are given only while nobody owns them,  *)
(* in contiguous runs, and taken back only from their owner.               *)
(* kernel/memory/heap/process_memory_pool.zig:24, "Only one process is     *)
(* owner of memory chunk".                                                 *)
(***************************************************************************)
EXTENDS Naturals

CONSTANTS Pid, PageCount, Nobody, Lost

VARIABLE owner

Page == 0..PageCount - 1

(* The pages of a run of n starting at i.                                  *)
Run(i, n) == i..i + n - 1

OwnedBy(run, who) == \A i \in run : owner[i] = who

Given(run, who) == [i \in Page |-> IF i \in run THEN who ELSE owner[i]]

Init == owner = [i \in Page |-> Nobody]

Claim(p, run) == OwnedBy(run, Nobody) /\ owner' = Given(run, p)

(* The kernel runs out of memory for its own bookkeeping.                  *)
Lose(run) == OwnedBy(run, Nobody) /\ owner' = Given(run, Lost)

Return(p, run) == OwnedBy(run, p) /\ owner' = Given(run, Nobody)

ReturnAll(p) == owner' = Given({i \in Page : owner[i] = p}, Nobody)

Next ==
  \/ \E i \in Page, n \in 1..PageCount :
       /\ Run(i, n) \subseteq Page
       /\ \/ Lose(Run(i, n))
          \/ \E p \in Pid : Claim(p, Run(i, n)) \/ Return(p, Run(i, n))
  \/ \E p \in Pid : ReturnAll(p)

Spec == Init /\ [][Next]_owner
=============================================================================
