------------------------ MODULE ProcessManager_proofs ------------------------
(***************************************************************************)
(* Proofs about ProcessManager, for every number of process objects and    *)
(* pids and whatever the programs do.                                      *)
(***************************************************************************)
EXTENDS ProcessManager, SequenceTheorems, WellFoundedInduction, TLAPS

(* A set of naturals that is not empty has a least element.                *)
LEMMA MinOfNaturals ==
  ASSUME NEW T, T \subseteq Nat, T # {}
  PROVE  Min(T) \in T
<1>1. PICK less : /\ IsWellFoundedOn(less, Nat)
                  /\ \A x, y \in Nat : y < x => <<y, x>> \in less
  <2>1. \A x, y \in Nat : y < x => <<y, x>> \in OpToRel(<, Nat)
    BY DEF OpToRel
  <2>2. QED
    BY <2>1, NatLessThanWellFounded, Zenon
<1>2. PICK x \in T : \A y \in T : ~(<<y, x>> \in less)
  BY <1>1, WFMin
<1>3. \A y \in T : x =< y
  <2> SUFFICES ASSUME NEW y \in T PROVE x =< y
    OBVIOUS
  <2>1. x \in Nat /\ y \in Nat
    OBVIOUS
  <2>2. ~(y < x)
    BY <1>1, <1>2, <2>1, Zenon
  <2>3. QED
    BY <2>1, <2>2
<1>4. QED
  BY <1>3 DEF Min

-----------------------------------------------------------------------------
(* The operations on process objects: they take tables to tables, and none *)
(* of them changes who a process' parent is or whether it has a vfork      *)
(* context.                                                                *)
SameFamily(t, u) ==
  \A q \in Proc : u[q].parent = t[q].parent /\ u[q].vforkContext = t[q].vforkContext

(* An address that was freed holds a well-formed record.                   *)
LEMMA NoProcessType == NoProcess \in Process
BY CodeAssumption, MaxPidAssumption DEF NoProcess, Process, State

(* Process.init builds a process.                                          *)
LEMMA NewProcessType ==
  ASSUME NEW n \in 0..MaxPid
  PROVE  NewProcess(n) \in Process
BY NoProcessType DEF NewProcess, NoProcess, Process, State

(* Process.vfork builds a process.                                         *)
LEMMA VforkedProcessType ==
  ASSUME NEW n \in 0..MaxPid, NEW p \in Proc
  PROVE  VforkedProcess(p, n) \in Process
BY NewProcessType DEF VforkedProcess, NewProcess, NoProcess, Process

(* reevaluate_state changes neither the parent nor the vfork context.      *)
LEMMA ReevaluatedType ==
  ASSUME NEW r \in Process
  PROVE  /\ Reevaluated(r) \in Process
         /\ Reevaluated(r).parent = r.parent
         /\ Reevaluated(r).vforkContext = r.vforkContext
BY DEF Reevaluated, Process, State

(* The same of the table.                                                  *)
LEMMA ReevaluateType ==
  ASSUME NEW t \in Table, NEW p \in Proc
  PROVE  Reevaluate(t, p) \in Table /\ SameFamily(t, Reevaluate(t, p))
BY ReevaluatedType DEF Reevaluate, Table, SameFamily

(* unblock_from changes neither the parent nor the vfork context.          *)
LEMMA UnblockedFromType ==
  ASSUME NEW r \in Process, NEW q
  PROVE  /\ UnblockedFrom(r, q) \in Process
         /\ UnblockedFrom(r, q).parent = r.parent
         /\ UnblockedFrom(r, q).vforkContext = r.vforkContext
<1> DEFINE s == [r EXCEPT !.blockedBy = @ \ {q}]
<1>1. s \in Process /\ s.parent = r.parent /\ s.vforkContext = r.vforkContext
  BY DEF Process
<1>2. UnblockedFrom(r, q) = Reevaluated(s)
  BY DEF UnblockedFrom
<1> HIDE DEF s
<1>3. QED
  BY <1>1, <1>2, ReevaluatedType

(* Telling a waiter the code changes only its status.                      *)
LEMMA NotifiedType ==
  ASSUME NEW r \in Process, NEW p, NEW es, NEW rc \in Code
  PROVE  /\ Notified(r, p, es, rc) \in Process
         /\ Notified(r, p, es, rc).parent = r.parent
         /\ Notified(r, p, es, rc).vforkContext = r.vforkContext
BY DEF Notified, Process

(* wait_for_process keeps the table a table and every family tie.          *)
LEMMA WaitForProcessType ==
  ASSUME NEW t \in Table, NEW p \in Proc, NEW q \in Proc, NEW action \in UnblockAction
  PROVE  /\ WaitForProcess(t, p, q, action) \in Table
         /\ SameFamily(t, WaitForProcess(t, p, q, action))
<1> DEFINE u == [t EXCEPT ![q].blocks = @ \cup {[blocked |-> p, action |-> action]}]
           v == [u EXCEPT ![p].blockedBy = @ \cup {q}]
<1>1. u \in Table /\ SameFamily(t, u)
  BY DEF Table, Process, BlockedProcessAction, SameFamily
<1>2. v \in Table /\ SameFamily(u, v)
  <2> HIDE DEF u
  <2>1. QED
    BY <1>1, SMTT(20) DEF Table, Process, SameFamily
<1>3. WaitForProcess(t, p, q, action) = Reevaluate(v, p)
  BY DEF WaitForProcess
<1> HIDE DEF u, v
<1>4. QED
  BY <1>1, <1>2, <1>3, ReevaluateType DEF SameFamily

(* unblock_parent keeps the table a table and every family tie.            *)
LEMMA UnblockParentType ==
  ASSUME NEW t \in Table, NEW p \in Proc
  PROVE  UnblockParent(t, p) \in Table /\ SameFamily(t, UnblockParent(t, p))
<1> DEFINE parent  == t[p].parent
           toldOff == {e \in t[p].blocks : e.blocked = parent}
           rest    == [t[p] EXCEPT !.blocks = @ \ toldOff]
           self    == [t EXCEPT ![p] = Reevaluated(rest)]
<1>1. t[p] \in Process /\ parent \in Proc \cup {Null}
  BY DEF Table, Process
<1>2. rest \in Process /\ rest.parent = t[p].parent /\ rest.vforkContext = t[p].vforkContext
  <2> HIDE DEF toldOff
  <2>1. QED
    BY <1>1 DEF Process
<1>3. self \in Table /\ SameFamily(t, self)
  <2> HIDE DEF rest
  <2>1. QED
    BY <1>2, ReevaluatedType DEF Table, SameFamily
<1>4. CASE parent = Null
  BY <1>3, <1>4 DEF UnblockParent
<1>5. CASE parent # Null
  <2> DEFINE told == Notified(self[parent], parent, toldOff, 0)
             woken == UnblockedFrom(told, p)
  <2>1. UnblockParent(t, p) = [self EXCEPT ![parent] = woken]
    BY <1>5 DEF UnblockParent
  <2>2. parent \in Proc
    BY <1>1, <1>5
  <2> HIDE DEF self, parent, toldOff
  <2>3. told \in Process /\ told.parent = self[parent].parent
        /\ told.vforkContext = self[parent].vforkContext
    BY <1>3, <2>2, NotifiedType, CodeAssumption DEF Table
  <2> HIDE DEF told
  <2>4. woken \in Process /\ woken.parent = self[parent].parent
        /\ woken.vforkContext = self[parent].vforkContext
    BY <2>3, UnblockedFromType
  <2> HIDE DEF woken
  <2>5. QED
    BY <1>3, <2>1, <2>2, <2>4 DEF Table, SameFamily
<1>6. QED
  BY <1>4, <1>5

(* unblock_all keeps the table a table and every family tie.               *)
LEMMA UnblockAllType ==
  ASSUME NEW t \in Table, NEW p \in Proc, NEW rc \in Code
  PROVE  UnblockAll(t, p, rc) \in Table /\ SameFamily(t, UnblockAll(t, p, rc))
<1> DEFINE self == [t EXCEPT ![p].blocks = {}]
           told(w) == Notified(self[w], w, t[p].blocks, rc)
<1>1. self \in Table /\ SameFamily(t, self)
  BY DEF Table, Process, SameFamily
<1>2. UnblockAll(t, p, rc) =
        [w \in Proc |-> IF w \in {e.blocked : e \in t[p].blocks}
                        THEN UnblockedFrom(told(w), p) ELSE self[w]]
  BY DEF UnblockAll
<1> HIDE DEF self
<1>3. ASSUME NEW w \in Proc
      PROVE  /\ told(w) \in Process /\ told(w).parent = self[w].parent
             /\ told(w).vforkContext = self[w].vforkContext
  BY <1>1, NotifiedType DEF Table
<1> HIDE DEF told
<1>4. ASSUME NEW w \in Proc
      PROVE  LET r == UnblockAll(t, p, rc)[w]
             IN  /\ r \in Process /\ r.parent = self[w].parent
                 /\ r.vforkContext = self[w].vforkContext
  BY <1>1, <1>2, <1>3, UnblockedFromType DEF Table
<1>5. UnblockAll(t, p, rc) \in Table
  BY <1>2, <1>4 DEF Table
<1>6. QED
  BY <1>1, <1>4, <1>5 DEF SameFamily

(* schedule_removal keeps the table a table and every family tie.          *)
LEMMA ScheduleRemovalType ==
  ASSUME NEW t \in Table, NEW p \in Proc
  PROVE  ScheduleRemoval(t, p) \in Table /\ SameFamily(t, ScheduleRemoval(t, p))
BY DEF ScheduleRemoval, Table, Process, State, SameFamily

-----------------------------------------------------------------------------
(* The scheduler: whatever it chooses is a process of the list.            *)
LEMMA SearchOrderType ==
  ASSUME NEW list \in Seq(Proc), NEW current
  PROVE  SearchOrder(list, current) \in Seq(Proc)
<1>1. CASE current \notin ToSet(list)
  BY <1>1 DEF SearchOrder
<1>2. CASE current \in ToSet(list)
  <2> DEFINE c == Position(list, current)
  <2>1. c \in 1..Len(list) /\ Len(list) \in Nat
    BY <1>2, LenProperties DEF Position, ToSet
  <2>2. \A i \in 1..Len(list) : list[i] \in Proc
    BY ElementOfSeq
  <2>3. SearchOrder(list, current) = SubSeq(list, c + 1, Len(list)) \o SubSeq(list, 1, c - 1)
    BY <1>2 DEF SearchOrder
  <2> HIDE DEF c
  <2>4. SubSeq(list, c + 1, Len(list)) \in Seq(Proc)
    BY <2>1, <2>2, SubSeqProperties
  <2>5. SubSeq(list, 1, c - 1) \in Seq(Proc)
    BY <2>1, <2>2, SubSeqProperties
  <2>6. QED
    BY <2>3, <2>4, <2>5, ConcatProperties
<1>3. QED
  BY <1>1, <1>2

(* schedule_next leaves null or a process in both pointers.                *)
LEMMA ScheduleNextType ==
  ASSUME NEW s \in Scheduler, NEW t \in Table, NEW list \in Seq(Proc)
  PROVE  ScheduleNext(s, t, list).scheduler \in Scheduler
<1> DEFINE order == SearchOrder(list, s.current)
           ready == {i \in DOMAIN order : t[order[i]].state = "Ready"}
           keeps == s.next # Null /\ t[s.next].state = "Ready"
<1>1. CASE (ready = {} /\ ~keeps) \/ keeps
  BY <1>1 DEF ScheduleNext
<1>2. CASE ready # {} /\ ~keeps
  <2>1. ScheduleNext(s, t, list).scheduler = [s EXCEPT !.next = order[Min(ready)]]
    BY <1>2 DEF ScheduleNext
  <2>2. order \in Seq(Proc)
    BY SearchOrderType
  <2> HIDE DEF order
  <2>3. ready \subseteq Nat /\ ready \subseteq 1..Len(order)
    BY <2>2, LenProperties
  <2>4. Min(ready) \in 1..Len(order)
    BY <1>2, <2>3, MinOfNaturals
  <2>5. order[Min(ready)] \in Proc
    BY <2>2, <2>4, ElementOfSeq
  <2> HIDE DEF ready
  <2>6. QED
    BY <2>1, <2>5 DEF Scheduler
<1>3. QED
  BY <1>1, <1>2

(* The process that leaves the core keeps its family ties.                 *)
LEMMA LeaveCurrentType ==
  ASSUME NEW s \in Scheduler, NEW t \in Table
  PROVE  LeaveCurrent(s, t) \in Table /\ SameFamily(t, LeaveCurrent(s, t))
<1>1. CASE s.current = Null
  BY <1>1 DEF LeaveCurrent, SameFamily
<1>2. CASE s.current # Null
  BY <1>2, ReevaluateType DEF LeaveCurrent, Scheduler
<1>3. QED
  BY <1>1, <1>2

(* So does the one that enters it.                                         *)
LEMMA RunningType ==
  ASSUME NEW r \in Process
  PROVE  LET run == [r EXCEPT !.state = "Running", !.initialized = TRUE]
         IN  /\ run \in Process /\ run.parent = r.parent
             /\ run.vforkContext = r.vforkContext
BY DEF Process, State

(* update_current keeps the types of the scheduler and of the table.       *)
LEMMA UpdateCurrentType ==
  ASSUME NEW s \in Scheduler, NEW t \in Table
  PROVE  /\ UpdateCurrent(s, t).scheduler \in Scheduler
         /\ UpdateCurrent(s, t).table \in Table
         /\ SameFamily(t, UpdateCurrent(s, t).table)
<1> DEFINE left == LeaveCurrent(s, t)
<1>1. left \in Table /\ SameFamily(t, left)
  BY LeaveCurrentType
<1>2. CASE s.next = Null
  BY <1>1, <1>2 DEF UpdateCurrent
<1>3. CASE s.next # Null
  <2> DEFINE run   == [left[s.next] EXCEPT !.state = "Running", !.initialized = TRUE]
             after == [left EXCEPT ![s.next] = run]
  <2>1. /\ UpdateCurrent(s, t).scheduler = [current |-> s.next, next |-> Null]
        /\ UpdateCurrent(s, t).table = after
    BY <1>3 DEF UpdateCurrent
  <2>2. s.next \in Proc
    BY <1>3 DEF Scheduler
  <2> HIDE DEF left
  <2>3. run \in Process /\ run.parent = left[s.next].parent
        /\ run.vforkContext = left[s.next].vforkContext
    <3>1. left[s.next] \in Process
      BY <1>1, <2>2 DEF Table
    <3>2. QED
      BY <3>1, RunningType
  <2> HIDE DEF run
  <2>4. after \in Table /\ SameFamily(left, after)
    BY <1>1, <2>2, <2>3 DEF Table, SameFamily
  <2> HIDE DEF after
  <2>5. QED
    BY <1>1, <2>1, <2>2, <2>4 DEF SameFamily, Scheduler
<1>4. QED
  BY <1>2, <1>3

(* So does set_next of a process.                                          *)
LEMMA SetNextType ==
  ASSUME NEW s \in Scheduler, NEW t \in Table, NEW p \in Proc
  PROVE  /\ SetNext(s, t, p).scheduler \in Scheduler
         /\ SetNext(s, t, p).table \in Table
         /\ SameFamily(t, SetNext(s, t, p).table)
<1>1. [s EXCEPT !.next = p] \in Scheduler
  BY DEF Scheduler
<1>2. QED
  BY <1>1, UpdateCurrentType DEF SetNext

(* remove_process leaves null or a process in both pointers.               *)
LEMMA RemoveProcessesType ==
  ASSUME NEW s \in Scheduler, NEW gone
  PROVE  RemoveProcesses(s, gone) \in Scheduler
BY DEF RemoveProcesses, Scheduler

-----------------------------------------------------------------------------
(* The nesting counter of block_context_switch.                            *)
Gate == [counter : Nat, enabled : BOOLEAN]
GateOK(g) == g \in Gate /\ (g.enabled <=> g.counter = 0)

(* block_context_switch keeps counter and flag in agreement.               *)
LEMMA BlockOK ==
  ASSUME NEW g, GateOK(g)
  PROVE  GateOK(Block(g))
BY DEF GateOK, Gate, Block

(* unblock_context_switch keeps counter and flag in agreement, also when   *)
(* the counter is zero already.                                            *)
LEMMA UnblockOK ==
  ASSUME NEW g, GateOK(g)
  PROVE  GateOK(Unblock(g))
<1>1. g.counter \in Nat /\ g.enabled \in BOOLEAN
  BY DEF GateOK, Gate
<1>2. CASE g.counter =< 1
  <2>1. g.counter - 1 =< 0 /\ (IF g.counter - 1 < 0 THEN 0 ELSE g.counter - 1) = 0
    BY <1>1, <1>2
  <2>2. Unblock(g) = [counter |-> 0, enabled |-> TRUE]
    BY <2>1, Zenon DEF Unblock
  <2>3. QED
    BY <2>2 DEF GateOK, Gate
<1>3. CASE g.counter > 1
  <2>1. g.enabled = FALSE
    BY <1>1, <1>3 DEF GateOK
  <2>2. /\ Unblock(g).counter = g.counter - 1
        /\ Unblock(g).enabled = FALSE
        /\ Unblock(g) \in Gate
    BY <1>1, <1>3, <2>1 DEF Unblock, Gate
  <2>3. QED
    BY <1>1, <1>3, <2>2 DEF GateOK
<1>4. QED
  BY <1>1, <1>2, <1>3

-----------------------------------------------------------------------------
(* The table of a step is typed only because a process with a vfork        *)
(* context has a parent for the processor to go back to.                   *)
TableOK(t) ==
  t \in Table /\ \A q \in Proc : t[q].vforkContext => t[q].parent \in Proc

(* An update that keeps every family tie keeps the table's invariant.      *)
LEMMA SameFamilyOK ==
  ASSUME NEW t, NEW u \in Table, TableOK(t), SameFamily(t, u)
  PROVE  TableOK(u)
BY DEF TableOK, SameFamily

(* Destroying the ended processes keeps the table's invariant.             *)
LEMMA SurvivorsOK == TableOK(table) => TableOK(Survivors)
<1> SUFFICES ASSUME TableOK(table) PROVE TableOK(Survivors)
  OBVIOUS
<1>1. NoProcess.vforkContext = FALSE
  BY DEF NoProcess
<1>2. QED
  BY <1>1, NoProcessType DEF TableOK, Survivors, Table

(* The fields exec, vfork and waitpid write themselves.                    *)
LEMMA FieldsType ==
  ASSUME NEW r \in Process, NEW b \in BOOLEAN
  PROVE  /\ [r EXCEPT !.vforkContext = b] \in Process
         /\ [r EXCEPT !.vforkContext = b].parent = r.parent
         /\ [r EXCEPT !.vforkContext = b].vforkContext = b
         /\ [r EXCEPT !.stackShared = FALSE, !.initialized = FALSE] \in Process
         /\ [r EXCEPT !.stackShared = FALSE, !.initialized = FALSE].parent = r.parent
         /\ [r EXCEPT !.stackShared = FALSE, !.initialized = FALSE].vforkContext = r.vforkContext
BY DEF Process

(* prepare_exec's new stack keeps the table's invariant.                   *)
LEMMA LoadedOK ==
  ASSUME NEW t, TableOK(t), NEW p \in Proc
  PROVE  TableOK([t EXCEPT ![p].stackShared = FALSE, ![p].initialized = FALSE])
<1> DEFINE r == [t[p] EXCEPT !.stackShared = FALSE, !.initialized = FALSE]
           u == [t EXCEPT ![p] = r]
<1>1. t \in Table /\ t[p] \in Process
  BY DEF TableOK, Table
<1>2. r \in Process /\ r.parent = t[p].parent /\ r.vforkContext = t[p].vforkContext
  BY <1>1, FieldsType
<1>3. [t EXCEPT ![p].stackShared = FALSE, ![p].initialized = FALSE] = u
  BY <1>1 DEF Table
<1> HIDE DEF r
<1>4. u \in Table /\ SameFamily(t, u)
  BY <1>1, <1>2 DEF Table, SameFamily
<1>5. QED
  BY <1>3, <1>4, SameFamilyOK

(* Storing an exit code keeps the table's invariant.                       *)
LEMMA CodeStoredOK ==
  ASSUME NEW t, TableOK(t), NEW p \in Proc, NEW rc \in Code
  PROVE  /\ TableOK([t EXCEPT ![p].status = rc])
         /\ TableOK([t EXCEPT ![p].childExitCode = rc])
<1>1. /\ [t EXCEPT ![p].status = rc] \in Table
      /\ SameFamily(t, [t EXCEPT ![p].status = rc])
  BY DEF TableOK, Table, Process, SameFamily
<1>2. /\ [t EXCEPT ![p].childExitCode = rc] \in Table
      /\ SameFamily(t, [t EXCEPT ![p].childExitCode = rc])
  BY DEF TableOK, Table, Process, SameFamily
<1>3. QED
  BY <1>1, <1>2, SameFamilyOK

(* A vfork context may be dropped, and set for a process with a parent.    *)
LEMMA VforkContextOK ==
  ASSUME NEW t, TableOK(t), NEW p \in Proc, NEW b \in BOOLEAN,
         b => t[p].parent \in Proc
  PROVE  TableOK([t EXCEPT ![p].vforkContext = b])
<1> DEFINE r == [t[p] EXCEPT !.vforkContext = b]
           u == [t EXCEPT ![p] = r]
<1>1. t \in Table /\ t[p] \in Process
  BY DEF TableOK, Table
<1>2. r \in Process /\ r.parent = t[p].parent /\ r.vforkContext = b
  BY <1>1, FieldsType
<1>3. [t EXCEPT ![p].vforkContext = b] = u
  BY <1>1 DEF Table
<1> HIDE DEF r
<1>4. u \in Table /\ \A q \in Proc : u[q] = IF q = p THEN r ELSE t[q]
  BY <1>1, <1>2 DEF Table
<1> HIDE DEF u
<1>5. TableOK(u)
  BY <1>2, <1>4 DEF TableOK
<1>6. QED
  BY <1>3, <1>5

(* delete_process's updates keep the table's invariant.                    *)
LEMMA DeletedOK ==
  ASSUME NEW t, TableOK(t), NEW p \in Proc, NEW rc \in Code
  PROVE  TableOK(Deleted(t, p, rc)) /\ SameFamily(t, Deleted(t, p, rc))
<1> DEFINE u == UnblockParent(t, p)
           v == ScheduleRemoval(u, p)
<1>1. u \in Table /\ SameFamily(t, u)
  BY UnblockParentType DEF TableOK
<1>2. v \in Table /\ SameFamily(u, v)
  BY <1>1, ScheduleRemovalType
<1>3. Deleted(t, p, rc) = UnblockAll(v, p, rc)
  BY DEF Deleted
<1> HIDE DEF u, v
<1>4. UnblockAll(v, p, rc) \in Table /\ SameFamily(v, UnblockAll(v, p, rc))
  BY <1>2, UnblockAllType
<1>5. SameFamily(t, Deleted(t, p, rc))
  BY <1>1, <1>2, <1>3, <1>4 DEF SameFamily
<1>6. QED
  BY <1>3, <1>4, <1>5, SameFamilyOK

-----------------------------------------------------------------------------
(* The inductive invariant: the types, the parent of every process with a  *)
(* vfork context, and the agreement of the gate with its counter.          *)
Others ==
  /\ processes \in Seq(Proc)
  /\ terminateList \in Seq(Proc)
  /\ pidMap \subseteq Pid
  /\ scheduler \in Scheduler
  /\ core \in Proc
  /\ pc \in [Proc -> Location]
  /\ newPid \in [Proc -> 0..MaxPid]
  /\ owed \in [Proc -> Code \cup {Null}]
  /\ mode \in Mode

IInv == Others /\ TableOK(table) /\ GateOK(gate)

(* The inductive invariant implies the two properties.                     *)
LEMMA IInvIsEnough == IInv => TypeOK /\ GateAgrees
BY DEF IInv, Others, TypeOK, GateAgrees, TableOK, GateOK, Gate

(* The root process satisfies the inductive invariant.                     *)
LEMMA InitIInv == Init => IInv
<1> SUFFICES ASSUME Init PROVE IInv
  OBVIOUS
<1> DEFINE root == CHOOSE p \in Proc : TRUE
<1>1. root \in Proc
  BY ProcAssumption
<1>2. NewProcess(1) \in Process /\ NewProcess(1).vforkContext = FALSE
  <2>1. 1 \in 0..MaxPid
    BY MaxPidAssumption
  <2>2. NewProcess(1) \in Process
    BY <2>1, NewProcessType
  <2>3. NewProcess(1).vforkContext = FALSE
    BY DEF NewProcess, NoProcess
  <2>4. QED
    BY <2>2, <2>3
<1>3. NoProcess.vforkContext = FALSE
  BY DEF NoProcess
<1>4. table = [p \in Proc |-> IF p = root THEN NewProcess(1) ELSE NoProcess]
  BY DEF Init
<1>5. processes = <<root>> /\ core = root
  BY DEF Init
<1> HIDE DEF root
<1>6. TableOK(table)
  BY <1>2, <1>3, <1>4, NoProcessType DEF TableOK, Table
<1>7. GateOK(gate)
  BY DEF Init, GateOK, Gate
<1>8. processes \in Seq(Proc) /\ terminateList \in Seq(Proc) /\ core \in Proc
  BY <1>1, <1>5 DEF Init
<1>9. /\ pidMap \subseteq Pid /\ scheduler \in Scheduler /\ mode \in Mode
      /\ pc \in [Proc -> Location] /\ newPid \in [Proc -> 0..MaxPid]
      /\ owed \in [Proc -> Code \cup {Null}]
  BY MaxPidAssumption DEF Init, Scheduler, Mode, Location
<1>10. QED
  BY <1>6, <1>7, <1>8, <1>9 DEF IInv, Others

(* process_set_next_task keeps the table's invariant, or panics.           *)
LEMMA SetNextTaskOK ==
  ASSUME NEW s \in Scheduler, NEW t, TableOK(t), core \in Proc, SetNextTask(s, t)
  PROVE  TableOK(table') /\ scheduler' \in Scheduler /\ core' \in Proc /\ mode' \in Mode
<1>1. CASE GetNext(s) = Null
  BY <1>1 DEF SetNextTask, Mode
<1>2. CASE GetNext(s) # Null
  <2>1. GetNext(s) \in Proc
    BY <1>2 DEF GetNext, Scheduler
  <2>2. UpdateCurrent(s, t).scheduler \in Scheduler /\ TableOK(UpdateCurrent(s, t).table)
    BY UpdateCurrentType, SameFamilyOK DEF TableOK
  <2>3. QED
    BY <1>2, <2>1, <2>2 DEF SetNextTask, Mode
<1>3. QED
  BY <1>1, <1>2

(* What the process manager's schedule_next leaves in the scheduler is     *)
(* well formed.                                                            *)
LEMMA ScheduleNextProcessType ==
  ASSUME IInv
  PROVE  ScheduleNextProcess.scheduler \in Scheduler
<1>1. /\ scheduler \in Scheduler /\ processes \in Seq(Proc)
      /\ Survivors \in Table
  BY SurvivorsOK DEF IInv, Others, TableOK
<1>2. RemoveProcesses(scheduler, Doomed) \in Scheduler
  BY <1>1, RemoveProcessesType
<1>3. CASE processes = <<>>
  BY <1>2, <1>3 DEF ScheduleNextProcess
<1>4. CASE processes # <<>>
  BY <1>1, <1>2, <1>4, ScheduleNextType DEF ScheduleNextProcess
<1>5. QED
  BY <1>3, <1>4

(* The pids given back are pids.                                           *)
LEMMA ReapOK ==
  ASSUME IInv, Reap
  PROVE  pidMap' \subseteq Pid /\ terminateList' \in Seq(Proc)
<1>1. Released({table[p].pid : p \in Doomed}) \subseteq Pid
  <2>1. Doomed \subseteq Proc
    BY ElementOfSeq, LenProperties DEF Doomed, ToSet, IInv, Others
  <2>2. \A p \in Doomed : table[p].pid \in 0..MaxPid
    <3>1. \A p \in Proc : table[p] \in Process
      BY DEF IInv, TableOK, Table
    <3>2. \A r \in Process : r.pid \in 0..MaxPid
      BY DEF Process
    <3>3. QED
      BY <2>1, <3>1, <3>2
  <2>3. QED
    BY <2>2, MaxPidAssumption DEF Released, Pid
<1>2. QED
  BY <1>1 DEF Reap, IInv, Others

(* Starting the root process preserves the inductive invariant.            *)
LEMMA StartRootOK == IInv /\ StartRoot => IInv'
<1> SUFFICES ASSUME IInv, StartRoot PROVE IInv'
  OBVIOUS
<1>1. TableOK(Survivors)
  BY SurvivorsOK DEF IInv
<1>2. /\ TableOK(table') /\ scheduler' \in Scheduler
      /\ core' \in Proc /\ mode' \in Mode
  BY <1>1, ScheduleNextProcessType, SetNextTaskOK DEF StartRoot, IInv, Others
<1>3. pidMap' \subseteq Pid /\ terminateList' \in Seq(Proc)
  BY ReapOK DEF StartRoot
<1>4. QED
  BY <1>2, <1>3 DEF StartRoot, IInv, Others

(* PendSV preserves the inductive invariant.                               *)
LEMMA ContextSwitchOK == IInv /\ ContextSwitch => IInv'
<1> SUFFICES ASSUME IInv, ContextSwitch PROVE IInv'
  OBVIOUS
<1>1. TableOK(Survivors) /\ ScheduleNextProcess.scheduler \in Scheduler
  BY SurvivorsOK, ScheduleNextProcessType DEF IInv
<1>2. /\ TableOK(table') /\ scheduler' \in Scheduler
      /\ core' \in Proc /\ mode' \in Mode
  <2>1. core \in Proc /\ mode \in Mode
    BY DEF IInv, Others
  <2>2. CASE SetNextTask(ScheduleNextProcess.scheduler, Survivors)
    BY <1>1, <2>1, <2>2, SetNextTaskOK
  <2>3. CASE /\ table' = Survivors /\ scheduler' = ScheduleNextProcess.scheduler
             /\ core' = core /\ mode' \in {mode, "main"}
    BY <1>1, <2>1, <2>3 DEF Mode
  <2>4. QED
    BY <2>2, <2>3 DEF ContextSwitch
<1>3. pidMap' \subseteq Pid /\ terminateList' \in Seq(Proc)
  BY ReapOK DEF ContextSwitch
<1>4. QED
  BY <1>2, <1>3 DEF ContextSwitch, IInv, Others

-----------------------------------------------------------------------------
(* The system calls.                                                       *)
LEMMA NextPidType ==
  ASSUME IInv, pidMap # {}
  PROVE  NextPid \in Pid
<1>1. pidMap \subseteq Pid /\ Pid \subseteq Nat
  BY MaxPidAssumption DEF IInv, Others, Pid
<1>2. QED
  BY <1>1, MinOfNaturals DEF NextPid

(* vfork preserves the inductive invariant: the child it gives a vfork     *)
(* context has a parent.                                                   *)
LEMMA VforkOK == ASSUME NEW p \in Proc PROVE IInv /\ Vfork(p) => IInv'
<1> SUFFICES ASSUME IInv, Vfork(p) PROVE IInv'
  OBVIOUS
<1>1. NextPid \in Pid /\ NextPid \in 0..MaxPid
  BY NextPidType, MaxPidAssumption DEF Vfork, Pid
<1>2. PICK child \in Proc :
        LET forked == [table EXCEPT ![child] = VforkedProcess(p, NextPid)]
            waits  == WaitForProcess(forked, p, child, "vfork")
            moved  == SetNext(scheduler, waits, child)
        IN  /\ table' = [moved.table EXCEPT ![child].vforkContext = TRUE]
            /\ scheduler' = moved.scheduler
            /\ processes' = Append(processes, child)
            /\ core' = child
            /\ pc' = [pc EXCEPT ![child] = "user"]
  BY DEF Vfork, FreeSlots
<1> DEFINE new    == VforkedProcess(p, NextPid)
           forked == [table EXCEPT ![child] = new]
           waits  == WaitForProcess(forked, p, child, "vfork")
           moved  == SetNext(scheduler, waits, child)
<1>3. new \in Process /\ new.parent = p /\ new.vforkContext = FALSE
  <2>1. new \in Process
    BY <1>1, VforkedProcessType
  <2>2. new.parent = p /\ new.vforkContext = FALSE
    BY DEF VforkedProcess, NewProcess, NoProcess
  <2>3. QED
    BY <2>1, <2>2
<1> HIDE DEF new
<1>4. forked \in Table /\ forked[child].parent = p /\ TableOK(forked)
  BY <1>3 DEF IInv, TableOK, Table
<1> HIDE DEF forked
<1>5. waits \in Table /\ SameFamily(forked, waits) /\ TableOK(waits)
  BY <1>4, WaitForProcessType, SameFamilyOK DEF UnblockAction
<1> HIDE DEF waits
<1>6. /\ moved.table \in Table /\ SameFamily(waits, moved.table) /\ TableOK(moved.table)
      /\ moved.scheduler \in Scheduler
  BY <1>5, SetNextType, SameFamilyOK DEF IInv, Others
<1>7. moved.table[child].parent = p
  BY <1>4, <1>5, <1>6 DEF SameFamily
<1>8. TableOK(table') /\ scheduler' \in Scheduler
  <2>1. TableOK([moved.table EXCEPT ![child].vforkContext = TRUE])
    BY <1>6, <1>7, VforkContextOK
  <2>2. QED
    BY <1>2, <1>6, <2>1 DEF forked, waits, new
<1>9. GateOK(gate')
  BY BlockOK, UnblockOK DEF Vfork, IInv
<1>10. processes' \in Seq(Proc)
  BY <1>2, AppendProperties DEF IInv, Others
<1>11. pc' \in [Proc -> Location]
  BY <1>2 DEF IInv, Others, Location
<1>12. core' \in Proc /\ pidMap' \subseteq Pid
  BY <1>2 DEF Vfork, IInv, Others
<1>13. QED
  BY <1>8, <1>9, <1>10, <1>11, <1>12 DEF Vfork, IInv, Others

(* The calls that change the gate and perhaps the pids only.               *)
LEMMA GateCallsOK ==
  ASSUME NEW p \in Proc
  PROVE  /\ IInv /\ VforkWithoutPid(p) => IInv'
         /\ IInv /\ VforkOutOfMemory(p) => IInv'
         /\ IInv /\ RefusedCall(p) => IInv'
         /\ IInv /\ ExitSpin(p) => IInv'
<1>1. IInv /\ VforkWithoutPid(p) => IInv'
  BY BlockOK, UnblockOK DEF VforkWithoutPid, IInv, Others
<1>2. IInv /\ VforkOutOfMemory(p) => IInv'
  BY BlockOK DEF VforkOutOfMemory, IInv, Others
<1>3. IInv /\ RefusedCall(p) => IInv'
  BY BlockOK DEF RefusedCall, IInv, Others
<1>4. IInv /\ ExitSpin(p) => IInv'
  BY UnblockOK DEF ExitSpin, IInv, Others
<1>5. QED
  BY <1>1, <1>2, <1>3, <1>4

(* exec preserves the inductive invariant: the parent it returns to        *)
(* exists.                                                                 *)
LEMMA ExecOK == ASSUME NEW p \in Proc PROVE IInv /\ Exec(p) => IInv'
<1> SUFFICES ASSUME IInv, Exec(p) PROVE IInv'
  OBVIOUS
<1> DEFINE parent  == table[p].parent
           loaded  == [table EXCEPT ![p].stackShared = FALSE, ![p].initialized = FALSE]
           moved   == SetNext(scheduler, loaded, parent)
           cleared == [moved.table EXCEPT ![p].vforkContext = FALSE]
<1>1. /\ table' = UnblockParent(cleared, p)
      /\ scheduler' = moved.scheduler
      /\ core' = parent
      /\ pc' = [pc EXCEPT ![parent] = "user"]
  BY DEF Exec
<1>2. parent \in Proc
  BY DEF Exec, IInv, TableOK
<1>3. TableOK(loaded)
  BY LoadedOK DEF IInv
<1> HIDE DEF parent, loaded
<1>4. TableOK(moved.table) /\ moved.scheduler \in Scheduler
  BY <1>2, <1>3, SetNextType, SameFamilyOK, ZenonT(40) DEF IInv, Others, TableOK
<1> HIDE DEF moved
<1>5. TableOK(cleared)
  BY <1>4, VforkContextOK
<1> HIDE DEF cleared
<1>6. TableOK(table')
  BY <1>1, <1>5, UnblockParentType, SameFamilyOK DEF TableOK
<1>7. GateOK(gate')
  BY BlockOK, UnblockOK DEF Exec, IInv
<1>8. pc' \in [Proc -> Location]
  BY <1>1, <1>2, Zenon DEF IInv, Others, Location
<1>9. QED
  BY <1>1, <1>2, <1>4, <1>6, <1>7, <1>8 DEF Exec, IInv, Others

(* exec outside a vfork child preserves the inductive invariant.           *)
LEMMA ReExecOK == ASSUME NEW p \in Proc PROVE IInv /\ ReExec(p) => IInv'
<1> SUFFICES ASSUME IInv, ReExec(p) PROVE IInv'
  OBVIOUS
<1> DEFINE parent == table[p].parent
           loaded == [table EXCEPT ![p].stackShared = FALSE, ![p].initialized = FALSE]
           moved  == SetNext(scheduler, loaded, parent)
<1>1. /\ parent # Null /\ table' = moved.table
      /\ scheduler' = moved.scheduler /\ core' = parent
      /\ pc' = [pc EXCEPT ![parent] = "user"]
      /\ owed' = [owed EXCEPT ![parent] = Null]
  BY DEF ReExec
<1>2. TableOK(loaded)
  BY LoadedOK DEF IInv
<1>3. parent \in Proc
  BY <1>1 DEF IInv, TableOK, Table, Process
<1>4. GateOK(gate')
  BY BlockOK DEF ReExec, IInv
<1> HIDE DEF parent, loaded
<1>5. TableOK(moved.table) /\ moved.scheduler \in Scheduler
  BY <1>2, <1>3, SetNextType, SameFamilyOK, ZenonT(40) DEF IInv, Others, TableOK
<1> HIDE DEF moved
<1>6. pc' \in [Proc -> Location] /\ owed' \in [Proc -> Code \cup {Null}]
  BY <1>1, <1>3, Zenon DEF IInv, Others, Location
<1>7. QED
  BY <1>1, <1>3, <1>4, <1>5, <1>6 DEF ReExec, IInv, Others

(* The faults of exec preserve the inductive invariant.                    *)
LEMMA ExecFaultsOK == ASSUME NEW p \in Proc PROVE IInv /\ ExecFaults(p) => IInv'
BY BlockOK DEF ExecFaults, IInv, Others, Mode

(* What is removed from the process list leaves a list of processes.       *)
LEMMA RemoveAtType ==
  ASSUME NEW list \in Seq(Proc), NEW p \in ToSet(list)
  PROVE  RemoveAt(list, Position(list, p)) \in Seq(Proc)
<1> DEFINE i == Position(list, p)
<1>1. i \in 1..Len(list) /\ Len(list) \in Nat
  BY LenProperties DEF Position, ToSet
<1>2. \A j \in 1..Len(list) : list[j] \in Proc
  BY ElementOfSeq
<1>3. RemoveAt(list, i) = SubSeq(list, 1, i - 1) \o SubSeq(list, i + 1, Len(list))
  BY DEF RemoveAt
<1> HIDE DEF i
<1>4. /\ SubSeq(list, 1, i - 1) \in Seq(Proc)
      /\ SubSeq(list, i + 1, Len(list)) \in Seq(Proc)
  BY <1>1, <1>2, SubSeqProperties
<1>5. RemoveAt(list, i) \in Seq(Proc)
  BY <1>3, <1>4, ConcatProperties
<1>6. QED
  BY <1>5 DEF i

(* delete_process preserves the inductive invariant: the parent it returns *)
(* to exists.                                                              *)
LEMMA DeleteOK ==
  ASSUME IInv, NEW t, TableOK(t), NEW p \in ToSet(processes), NEW rc \in Code,
         Delete(t, p, rc)
  PROVE  IInv'
<1> DEFINE deleted == Deleted(t, p, rc)
           moved   == SetNext(scheduler, deleted, t[p].parent)
<1>1. p \in Proc
  BY ElementOfSeq, LenProperties DEF ToSet, IInv, Others
<1>2. TableOK(deleted)
  BY <1>1, DeletedOK
<1>3. processes' \in Seq(Proc) /\ terminateList' \in Seq(Proc)
  BY <1>1, RemoveAtType, AppendProperties DEF Delete, IInv, Others
<1>4. owed' \in [Proc -> Code \cup {Null}]
  BY DEF Delete, IInv, Others
<1>5. CASE /\ t[p].vforkContext /\ table' = moved.table
           /\ scheduler' = moved.scheduler /\ core' = t[p].parent
           /\ gate' = Unblock(Block(gate))
           /\ pc' = [pc EXCEPT ![t[p].parent] = "user"]
  <2>1. t[p].parent \in Proc
    BY <1>1, <1>5 DEF TableOK
  <2> HIDE DEF deleted
  <2>2. TableOK(moved.table) /\ moved.scheduler \in Scheduler
    BY <1>2, <2>1, SetNextType, SameFamilyOK DEF IInv, Others, TableOK
  <2> HIDE DEF moved
  <2>3. GateOK(gate')
    BY <1>5, BlockOK, UnblockOK DEF IInv
  <2>4. pc' \in [Proc -> Location]
    BY <1>5, <2>1, Zenon DEF IInv, Others, Location
  <2>5. QED
    BY <1>3, <1>4, <1>5, <2>1, <2>2, <2>3, <2>4 DEF Delete, IInv, Others
<1>6. CASE /\ table' = deleted /\ gate' = Block(gate)
           /\ pc' = [pc EXCEPT ![p] = "exit"] /\ UNCHANGED <<scheduler, core>>
  <2>1. GateOK(gate') /\ pc' \in [Proc -> Location]
    BY <1>6, BlockOK DEF IInv, Others, Location
  <2> HIDE DEF deleted
  <2>2. QED
    BY <1>2, <1>3, <1>4, <1>6, <2>1 DEF Delete, IInv, Others
<1>7. QED
  BY <1>5, <1>6 DEF Delete

(* exit preserves the inductive invariant.                                 *)
LEMMA ExitOK ==
  ASSUME NEW p \in Proc, NEW rc \in Code
  PROVE  IInv /\ Exit(p, rc) => IInv'
<1> SUFFICES ASSUME IInv, Exit(p, rc) PROVE IInv'
  OBVIOUS
<1> DEFINE parent == table[p].parent
           told   == IF parent = Null THEN table
                     ELSE [table EXCEPT ![parent].childExitCode = rc]
<1>1. p \in ToSet(processes) /\ Delete(told, p, rc)
  BY DEF Exit, MayEnd
<1>2. parent \in Proc \cup {Null}
  BY DEF IInv, TableOK, Table, Process
<1>3. TableOK(told)
  BY <1>2, CodeStoredOK DEF IInv
<1> HIDE DEF told
<1>4. QED
  BY <1>1, <1>3, DeleteOK

(* kill preserves the inductive invariant.                                 *)
LEMMA KillOK == ASSUME NEW p \in Proc PROVE IInv /\ Kill(p) => IInv'
<1> SUFFICES ASSUME IInv, Kill(p) PROVE IInv'
  OBVIOUS
<1>1. p \in ToSet(processes) /\ Delete(table, p, -1) /\ -1 \in Code
  BY HabitsAssumption DEF Kill, MayEnd
<1>2. TableOK(table)
  BY DEF IInv
<1>3. QED
  BY <1>1, <1>2, DeleteOK

(* The faults of exit and kill preserve the inductive invariant.           *)
LEMMA EndFaultsOK == ASSUME NEW p \in Proc PROVE IInv /\ EndFaults(p) => IInv'
BY BlockOK DEF EndFaults, EndFault, IInv, Others, Mode

(* Every step of waitpid preserves the inductive invariant.                *)
LEMMA WaitpidOK ==
  ASSUME NEW p \in Proc
  PROVE  /\ \A q \in Proc : IInv /\ WaitpidBegin(p, q) => IInv'
         /\ \A n \in Pid : IInv /\ WaitpidUnknown(p, n) => IInv'
         /\ IInv /\ WaitpidSpin(p) => IInv'
         /\ IInv /\ WaitpidReturn(p) => IInv'
<1>1. ASSUME IInv, NEW q \in Proc, WaitpidBegin(p, q) PROVE IInv'
  <2>1. TableOK(table')
    <3>1. table \in Table /\ TableOK(table) /\ "waitpid" \in UnblockAction
      BY <1>1 DEF IInv, TableOK, UnblockAction
    <3>2. table' = WaitForProcess(table, p, q, "waitpid")
      BY <1>1 DEF WaitpidBegin
    <3>3. QED
      BY <3>1, <3>2, WaitForProcessType, SameFamilyOK
  <2>2. GateOK(gate') /\ pc' \in [Proc -> Location]
    BY <1>1, BlockOK DEF WaitpidBegin, IInv, Others, Location
  <2>3. QED
    BY <1>1, <2>1, <2>2 DEF WaitpidBegin, IInv, Others
<1>2. ASSUME IInv, NEW n \in Pid, WaitpidUnknown(p, n) PROVE IInv'
  <2>1. TableOK(table) /\ table[p].childExitCode \in Code
    BY <1>2 DEF IInv, TableOK, Table, Process
  <2>2. TableOK(table') /\ GateOK(gate')
    BY <1>2, <2>1, CodeStoredOK, BlockOK DEF WaitpidUnknown, IInv
  <2>3. QED
    BY <1>2, <2>2 DEF WaitpidUnknown, IInv, Others
<1>3. ASSUME IInv, WaitpidSpin(p) PROVE IInv'
  <2>1. TableOK(table') /\ GateOK(gate')
    BY <1>3, ReevaluateType, SameFamilyOK, UnblockOK DEF WaitpidSpin, IInv, TableOK
  <2>2. QED
    BY <1>3, <2>1 DEF WaitpidSpin, IInv, Others
<1>4. ASSUME IInv, WaitpidReturn(p) PROVE IInv'
  <2> DEFINE code == table[p].childExitCode
             woken == Reevaluate(table, p)
  <2>1. TableOK(table) /\ table \in Table /\ code \in Code
    BY <1>4 DEF IInv, TableOK, Table, Process
  <2>2. TableOK(woken)
    BY <2>1, ReevaluateType, SameFamilyOK
  <2>3. table' = [woken EXCEPT ![p].status = code]
    BY <1>4, <2>1 DEF WaitpidReturn, Reevaluate, Table
  <2> HIDE DEF woken, code
  <2>4. TableOK(table')
    BY <2>1, <2>2, <2>3, CodeStoredOK
  <2>5. /\ pc' \in [Proc -> Location] /\ GateOK(gate')
        /\ owed' \in [Proc -> Code \cup {Null}]
    BY <1>4 DEF WaitpidReturn, IInv, Others, Location
  <2>6. QED
    BY <1>4, <2>4, <2>5 DEF WaitpidReturn, IInv, Others
<1>5. QED
  BY <1>1, <1>2, <1>3, <1>4

(* Every step of create_process preserves the inductive invariant.         *)
LEMMA CreateOK ==
  ASSUME NEW p \in Proc
  PROVE  /\ IInv /\ CreateTakePid(p) => IInv'
         /\ IInv /\ CreateAppend(p) => IInv'
         /\ IInv /\ CreateOutOfMemory(p) => IInv'
<1>1. ASSUME IInv, CreateTakePid(p) PROVE IInv'
  <2>1. NextPid \in 0..MaxPid
    BY <1>1, NextPidType, MaxPidAssumption DEF CreateTakePid, Pid
  <2>2. /\ newPid' \in [Proc -> 0..MaxPid] /\ pc' \in [Proc -> Location]
        /\ pidMap' \subseteq Pid
    BY <1>1, <2>1 DEF CreateTakePid, IInv, Others, Location
  <2>3. QED
    BY <1>1, <2>2 DEF CreateTakePid, IInv, Others
<1>2. ASSUME IInv, CreateAppend(p) PROVE IInv'
  <2>1. PICK q \in Proc :
          /\ table' = [table EXCEPT ![q] = NewProcess(newPid[p])]
          /\ processes' = Append(processes, q)
          /\ pc' = [pc EXCEPT ![p] = "user", ![q] = "user"]
    BY <1>2 DEF CreateAppend, FreeSlots
  <2> DEFINE new == NewProcess(newPid[p])
  <2>2. new \in Process
    BY <1>2, NewProcessType DEF IInv, Others
  <2>3. new.vforkContext = FALSE
    BY DEF NewProcess, NoProcess
  <2> HIDE DEF new
  <2>4. TableOK([table EXCEPT ![q] = new])
    BY <1>2, <2>2, <2>3 DEF IInv, TableOK, Table
  <2>5. TableOK(table') /\ processes' \in Seq(Proc) /\ pc' \in [Proc -> Location]
    BY <1>2, <2>1, <2>4, AppendProperties DEF IInv, Others, Location, new
  <2>6. GateOK(gate') /\ newPid' \in [Proc -> 0..MaxPid]
    BY <1>2, BlockOK, UnblockOK, MaxPidAssumption DEF CreateAppend, IInv, Others
  <2>7. QED
    BY <1>2, <2>5, <2>6 DEF CreateAppend, IInv, Others
<1>3. ASSUME IInv, CreateOutOfMemory(p) PROVE IInv'
  <2>1. newPid' \in [Proc -> 0..MaxPid] /\ pc' \in [Proc -> Location]
    BY <1>3, MaxPidAssumption DEF CreateOutOfMemory, IInv, Others, Location
  <2>2. QED
    BY <1>3, <2>1 DEF CreateOutOfMemory, IInv, Others
<1>4. QED
  BY <1>1, <1>2, <1>3

-----------------------------------------------------------------------------
(* Every step preserves the inductive invariant.                           *)
LEMMA NextIInv == IInv /\ [Next]_vars => IInv'
<1> SUFFICES ASSUME IInv, [Next]_vars PROVE IInv'
  OBVIOUS
<1>1. CASE StartRoot
  BY <1>1, StartRootOK
<1>2. CASE ContextSwitch
  BY <1>2, ContextSwitchOK
<1>3. CASE UNCHANGED vars
  BY <1>3 DEF vars, IInv, Others
<1>4. ASSUME NEW p \in Proc, SystemCall(p) PROVE IInv'
  <2>1. CASE Vfork(p) \/ Exec(p) \/ ReExec(p) \/ ExecFaults(p)
    BY <2>1, VforkOK, ExecOK, ReExecOK, ExecFaultsOK
  <2>2. CASE VforkWithoutPid(p) \/ VforkOutOfMemory(p) \/ RefusedCall(p)
    BY <2>2, GateCallsOK
  <2>3. CASE (\E rc \in Code : Exit(p, rc)) \/ Kill(p) \/ EndFaults(p)
    BY <2>3, ExitOK, KillOK, EndFaultsOK
  <2>4. CASE (\E q \in Proc : WaitpidBegin(p, q)) \/ (\E n \in Pid : WaitpidUnknown(p, n))
    BY <2>4, WaitpidOK
  <2>5. CASE CreateTakePid(p)
    BY <2>5, CreateOK
  <2>6. QED
    BY <1>4, <2>1, <2>2, <2>3, <2>4, <2>5 DEF SystemCall
<1>5. ASSUME NEW p \in Proc, KernelStep(p) PROVE IInv'
  BY <1>5, GateCallsOK, WaitpidOK, CreateOK DEF KernelStep
<1>6. QED
  BY <1>1, <1>2, <1>3, <1>4, <1>5 DEF Next

(* The inductive invariant holds in every reachable state.                 *)
LEMMA SpecIInv == Spec => []IInv
<1>1. QED
  BY InitIInv, NextIInv, PTL DEF Spec

(* Every object, list, pid and pointer of the process manager keeps its    *)
(* type.  The hard part is that the processor is never handed the null     *)
(* pointer as the parent to go back to from a vfork child, whatever the    *)
(* programs do (delete_process and prepare_exec use parent without asking).*)
THEOREM TypeCorrect == Spec => []TypeOK
<1>1. QED
  BY SpecIInv, IInvIsEnough, PTL

(* The flag that PendSV looks at and the nesting counter behind it always  *)
(* agree, through the double unblock of prepare_exec, the unblock of a     *)
(* loop that was never blocked and every call that forgets its own         *)
(* (block_context_switch and unblock_context_switch).                      *)
THEOREM GateCorrect == Spec => []GateAgrees
<1>1. QED
  BY SpecIInv, IInvIsEnough, PTL
=============================================================================
