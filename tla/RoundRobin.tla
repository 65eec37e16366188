----------------------------- MODULE RoundRobin -----------------------------
(***************************************************************************)
(* kernel/scheduler/round_robin.zig: the scheduler keeps two pointers into *)
(* the process list, the process that runs and the one chosen to run next. *)
(* Everything else it knows it reads from the list and the processes.      *)
(***************************************************************************)
EXTENDS SequencesExt, ProcessTable

Scheduler == [current : Proc \cup {Null}, next : Proc \cup {Null}]

SchedulerAction == {"NoAction", "Switch", "StoreAndSwitch", "ReturnToMain"}

(* The position of p in list.                                              *)
Position(list, p) == CHOOSE i \in DOMAIN list : list[i] = p

(* Mutant: the search always starts at the head.                           *)
SearchOrderFromHead(list, current) ==
  IF current \notin ToSet(list) THEN list
  ELSE LET c == Position(list, current)
       IN  SubSeq(list, 1, c - 1) \o SubSeq(list, c + 1, Len(list))

(* Mutant: the second search does not stop at the current process.         *)
SearchOrderPastCurrent(list, current) ==
  IF current \notin ToSet(list) THEN list
  ELSE LET c == Position(list, current)
       IN  SubSeq(list, c + 1, Len(list)) \o SubSeq(list, 1, c)

(* The order in which schedule_next inspects the list: the processes after *)
(* the current one, then those from the head up to the current one.  The   *)
(* scheduler's current process is null or in the list (CurrentIsCore).     *)
SearchOrder(list, current) ==
  IF current \notin ToSet(list) THEN list
  ELSE LET c == Position(list, current)
       IN  SubSeq(list, c + 1, Len(list)) \o SubSeq(list, 1, c - 1)

(* A process that has never run has no context worth storing.              *)
SwitchAction(s, t) ==
  IF s.current # Null /\ t[s.current].initialized
  THEN "StoreAndSwitch" ELSE "Switch"

(* schedule_next: a choice already made and still ready stands; otherwise  *)
(* the first ready process in search order is chosen.                      *)
ScheduleNext(s, t, list) ==
  LET order == SearchOrder(list, s.current)
      ready == {i \in DOMAIN order : t[order[i]].state = "Ready"}
      keeps == s.next # Null /\ t[s.next].state = "Ready"
  IN  IF ready = {} /\ ~keeps
      THEN [action |-> "NoAction", scheduler |-> s]
      ELSE [action |-> SwitchAction(s, t),
            scheduler |-> IF keeps THEN s
                          ELSE [s EXCEPT !.next = order[Min(ready)]]]

(* Mutant: whoever leaves the core is taken for ready.                     *)
LeaveCurrentReady(s, t) ==
  IF s.current = Null \/ t[s.current].state = "Terminated" THEN t
  ELSE [t EXCEPT ![s.current].state = "Ready"]

(* update_current: the process leaving the core is re-evaluated, the       *)
(* chosen one becomes the current one.                                     *)
LeaveCurrent(s, t) == IF s.current = Null THEN t ELSE Reevaluate(t, s.current)

(* Mutant: the choice made is not forgotten.                               *)
UpdateCurrentKeepsNext(s, t) ==
  LET left == LeaveCurrent(s, t)
  IN  IF s.next = Null THEN [scheduler |-> s, table |-> left]
      ELSE [scheduler |-> [s EXCEPT !.current = s.next],
            table |-> [left EXCEPT ![s.next] =
                         [@ EXCEPT !.state = "Running", !.initialized = TRUE]]]

UpdateCurrent(s, t) ==
  LET left == LeaveCurrent(s, t)
  IN  IF s.next = Null THEN [scheduler |-> s, table |-> left]
      ELSE [scheduler |-> [current |-> s.next, next |-> Null],
            table |-> [left EXCEPT ![s.next] =
                         [@ EXCEPT !.state = "Running", !.initialized = TRUE]]]

(* set_next.                                                               *)
SetNext(s, t, p) == UpdateCurrent([s EXCEPT !.next = p], t)

(* remove_process, for every process of the set gone.                      *)
RemoveProcesses(s, gone) ==
  [current |-> IF s.current \in gone THEN Null ELSE s.current,
   next    |-> IF s.next \in gone THEN Null ELSE s.next]

(* get_next: the process a context switch goes to, Null if there is none.  *)
GetNext(s) == IF s.next = s.current THEN Null ELSE s.next
=============================================================================
