--------------------------- MODULE ProcessManager ---------------------------
(***************************************************************************)
(* The process manager of the kernel (kernel/process_manager.zig) together *)
(* with the system calls that create, replace, wait for and end processes  *)
(* and the context switch that runs between them.                          *)
(*                                                                         *)
(* System calls run in thread mode, on the stack of the calling process,   *)
(* and a PendSV may interrupt them anywhere unless context switching is    *)
(* blocked.  The handlers below block it on entry, so a step is one such   *)
(* blocked section, and ContextSwitch may come between any two steps.      *)
(***************************************************************************)
EXTENDS RoundRobin

CONSTANTS
  Habits,      \* what user programs do beyond the basic vfork, exec, wait
  MaxBlocked   \* bound on the nesting of block_context_switch

(* "siblings"     a process has several children at a time                 *)
(* "orphans"      a process ends while it still has children               *)
(* "lateWait"     waitpid names a process that is gone already             *)
(* "strangerWait" waitpid names a process that is not a child              *)
(* "abort"        a process ends by kill instead of exit                   *)
(* "badCall"      exec of a file that cannot be loaded, read and write of  *)
(*                a null buffer                                            *)
(* "reExec"       exec in a process that is not a fresh vfork child        *)
(* "create"       the create_process system call                           *)
(* "outOfMemory"  allocations fail                                         *)
AllHabits == {"siblings", "orphans", "lateWait", "strangerWait", "abort",
              "badCall", "reExec", "create", "outOfMemory"}

ASSUME HabitsAssumption ==
  Habits \subseteq AllHabits /\ ("abort" \in Habits => -1 \in Code)
ASSUME MaxBlockedAssumption == MaxBlocked \in Nat \ {0}

VARIABLES
  table,          \* the process objects
  processes,      \* the process list
  terminateList,  \* ended processes that wait to be destroyed
  pidMap,         \* the pids that are free
  scheduler,      \* RoundRobin's two pointers
  core,           \* core[0], the process the processor executes
  gate,           \* context_switch_enabled and the nesting counter
  pc,             \* where the code of each process stands
  newPid,         \* the pid a create_process call has taken
  owed,           \* history: the code of the process each waitpid names
  mode            \* what became of the kernel

vars == <<table, processes, terminateList, pidMap, scheduler, core, gate,
          pc, newPid, owed, mode>>

Location == {"user", "waitpid", "create", "exit"}
Mode == {"boot", "running", "main", "panic", "useAfterFree"}

(* Every variable has the type of the field it stands for; the nesting     *)
(* counter in particular never becomes negative.                           *)
TypeOK ==
  /\ table \in Table
  /\ processes \in Seq(Proc)
  /\ terminateList \in Seq(Proc)
  /\ pidMap \subseteq Pid
  /\ scheduler \in Scheduler
  /\ core \in Proc
  /\ gate \in [counter : Nat, enabled : BOOLEAN]
  /\ pc \in [Proc -> Location]
  /\ newPid \in [Proc -> 0..MaxPid]
  /\ owed \in [Proc -> Code \cup {Null}]
  /\ mode \in Mode

-----------------------------------------------------------------------------
(* block_context_switch and unblock_context_switch.                        *)
Block(g) == [counter |-> g.counter + 1, enabled |-> FALSE]

(* Mutants: the counter is not clamped; any unblock enables; none does.    *)
UnblockUnclamped(g) ==
  [counter |-> g.counter - 1, enabled |-> g.counter =< 1 \/ g.enabled]

UnblockAlways(g) ==
  [counter |-> IF g.counter = 0 THEN 0 ELSE g.counter - 1, enabled |-> TRUE]

UnblockNever(g) ==
  [counter |-> IF g.counter = 0 THEN 0 ELSE g.counter - 1, enabled |-> g.enabled]

Unblock(g) ==
  LET n == g.counter - 1
  IN  [counter |-> IF n < 0 THEN 0 ELSE n, enabled |-> n =< 0 \/ g.enabled]

(* The lowest free pid, taken by get_next_pid.                             *)
NextPid == Min(pidMap)

(* Mutant: the bit of the wrong index is set.                              *)
ReleasedIndex(pids) == {n + 1 : n \in {m \in pids : m > 0 /\ m < MaxPid}}

(* release_pid gives back the pids below the maximum.                      *)
Released(pids) == {n \in pids : n > 0 /\ n < MaxPid}

(* get_process_for_pid.                                                    *)
ProcessesForPid(n) == {p \in ToSet(processes) : table[p].pid = n}

FreeSlots == {p \in Proc : table[p].state = "Free"}

Children(p) == {q \in ToSet(processes) : table[q].parent = p}

(* The process p executes its own code at the location l.                  *)
Executes(p, l) == mode = "running" /\ core = p /\ pc[p] = l

(* create_root_process; the address of the first object does not matter.   *)
Init ==
  LET root == CHOOSE p \in Proc : TRUE
  IN
    /\ table = [p \in Proc |-> IF p = root THEN NewProcess(1) ELSE NoProcess]
    /\ processes = <<root>>
    /\ terminateList = <<>>
    /\ pidMap = Pid \ {1}
    /\ scheduler = [current |-> Null, next |-> Null]
    /\ core = root
    /\ gate = [counter |-> 0, enabled |-> TRUE]
    /\ pc = [p \in Proc |-> "user"]
    /\ newPid = [p \in Proc |-> 0]
    /\ owed = [p \in Proc |-> Null]
    /\ mode = "boot"

-----------------------------------------------------------------------------
(* schedule_next destroys every process of the terminate list, then asks   *)
(* the scheduler.  node.next is read after the node was destroyed; no      *)
(* allocation can come between, so the walk still finds its successor.     *)
Doomed == ToSet(terminateList)

Survivors == [p \in Proc |-> IF p \in Doomed THEN NoProcess ELSE table[p]]

ScheduleNextProcess ==
  LET s == RemoveProcesses(scheduler, Doomed)
  IN  IF processes = <<>>
      THEN [action |-> "ReturnToMain", scheduler |-> s]
      ELSE ScheduleNext(s, Survivors, processes)

(* Mutant: the terminate list is not emptied.                              *)
ReapKeepsList ==
  /\ pidMap' = pidMap \cup Released({table[p].pid : p \in Doomed})
  /\ UNCHANGED terminateList

Reap ==
  /\ pidMap' = pidMap \cup Released({table[p].pid : p \in Doomed})
  /\ terminateList' = <<>>

(* process_set_next_task; get_next must find a task.                       *)
SetNextTask(s, t) ==
  LET updated == UpdateCurrent(s, t)
  IN  IF GetNext(s) = Null
      THEN /\ mode' = "panic"
           /\ table' = t /\ scheduler' = s /\ UNCHANGED core
      ELSE /\ mode' = "running"
           /\ table' = updated.table
           /\ scheduler' = updated.scheduler
           /\ core' = GetNext(s)

(* root_process: schedule the root process and switch to it from main.     *)
StartRoot ==
  /\ mode = "boot"
  /\ Reap
  /\ SetNextTask(ScheduleNextProcess.scheduler, Survivors)
  /\ UNCHANGED <<processes, gate, pc, newPid, owed>>

(* PendSV, raised by the system tick or by a process that yields.          *)
ContextSwitch ==
  /\ mode = "running"
  /\ gate.enabled
  /\ Reap
  /\ \/ /\ ScheduleNextProcess.action \in {"Switch", "StoreAndSwitch"}
        /\ SetNextTask(ScheduleNextProcess.scheduler, Survivors)
     \/ /\ ScheduleNextProcess.action = "NoAction"
        /\ table' = Survivors
        /\ scheduler' = ScheduleNextProcess.scheduler
        /\ UNCHANGED <<core, mode>>
     \/ /\ ScheduleNextProcess.action = "ReturnToMain"
        /\ table' = Survivors
        /\ scheduler' = ScheduleNextProcess.scheduler
        /\ mode' = "main"
        /\ UNCHANGED core
  /\ UNCHANGED <<processes, gate, pc, newPid, owed>>

-----------------------------------------------------------------------------
(* vfork: the child runs at once, on the stack of its parent, which waits  *)
(* for it.  Of the free pids it gets the lowest.                           *)
Vfork(p) ==
  /\ Executes(p, "user")
  /\ "siblings" \in Habits \/ Children(p) = {}
  /\ pidMap # {}
  /\ \E child \in FreeSlots :
       LET forked == [table EXCEPT ![child] = VforkedProcess(p, NextPid)]
           waits  == WaitForProcess(forked, p, child, "vfork")
           moved  == SetNext(scheduler, waits, child)
       IN  /\ table' = [moved.table EXCEPT ![child].vforkContext = TRUE]
           /\ scheduler' = moved.scheduler
           /\ processes' = Append(processes, child)
           /\ core' = child
           /\ pc' = [pc EXCEPT ![child] = "user"]
  /\ pidMap' = pidMap \ {NextPid}
  /\ gate' = Unblock(Block(gate))
  /\ UNCHANGED <<terminateList, newPid, owed, mode>>

(* vfork without a free pid answers TryAgain; its errdefer unblocks.       *)
VforkWithoutPid(p) ==
  /\ Executes(p, "user")
  /\ pidMap = {}
  /\ gate' = Unblock(Block(gate))
  /\ UNCHANGED <<table, processes, terminateList, pidMap, scheduler, core, pc,
                 newPid, owed, mode>>

(* vfork whose allocations fail returns -1, which is not an error: neither *)
(* the pid nor the blocked context switch is given back.                   *)
VforkOutOfMemory(p) ==
  /\ Executes(p, "user")
  /\ "outOfMemory" \in Habits
  /\ gate.counter < MaxBlocked
  /\ pidMap # {}
  /\ pidMap' = pidMap \ {NextPid}
  /\ gate' = Block(gate)
  /\ UNCHANGED <<table, processes, terminateList, scheduler, core, pc, newPid,
                 owed, mode>>

-----------------------------------------------------------------------------
(* prepare_exec: p gets a stack of its own and will start at the program's *)
(* entry; the processor goes on with the parent, which p no longer blocks, *)
(* behind its call of vfork.  process_get_back_to_parent_vfork unblocks a  *)
(* second time.                                                            *)
Exec(p) ==
  LET parent == table[p].parent
      loaded == [table EXCEPT ![p].stackShared = FALSE, ![p].initialized = FALSE]
      moved  == SetNext(scheduler, loaded, parent)
      freed  == UnblockParent([moved.table EXCEPT ![p].vforkContext = FALSE], p)
  IN  /\ Executes(p, "user")
      /\ table[p].vforkContext
      /\ ~Dangling(table, parent)
      /\ table' = freed
      /\ scheduler' = moved.scheduler
      /\ core' = parent
      /\ pc' = [pc EXCEPT ![parent] = "user"]
      /\ gate' = Unblock(Unblock(Block(gate)))
      /\ UNCHANGED <<processes, terminateList, pidMap, newPid, owed, mode>>

(* prepare_exec in a process that is not a fresh vfork child ("exec on     *)
(* currently running process is not supported yet"): the parent is made    *)
(* the running process whatever it waits for, and the call returns, with   *)
(* switching blocked, into the program that made it.  This program goes on *)
(* as the parent, whose own place is lost with the next stored context; p  *)
(* will start at the entry of what it has loaded.                          *)
ReExec(p) ==
  LET parent == table[p].parent
      loaded == [table EXCEPT ![p].stackShared = FALSE, ![p].initialized = FALSE]
      moved  == SetNext(scheduler, loaded, parent)
  IN  /\ Executes(p, "user")
      /\ "reExec" \in Habits
      /\ ~table[p].vforkContext
      /\ parent # Null /\ ~Dangling(table, parent)
      /\ gate.counter < MaxBlocked
      /\ gate' = Block(gate)
      /\ table' = moved.table
      /\ scheduler' = moved.scheduler
      /\ core' = parent
      /\ pc' = [pc EXCEPT ![parent] = "user"]
      /\ owed' = [owed EXCEPT ![parent] = Null]
      /\ UNCHANGED <<processes, terminateList, pidMap, newPid, mode>>

(* Either of them follows the parent pointer without asking whether there  *)
(* is a parent: a root process has none, and it may be gone.               *)
ExecFaults(p) ==
  LET parent == table[p].parent
  IN  /\ Executes(p, "user")
      /\ table[p].vforkContext \/ "reExec" \in Habits
      /\ parent = Null \/ Dangling(table, parent)
      /\ mode' = IF parent = Null THEN "panic" ELSE "useAfterFree"
      /\ gate' = Block(gate)
      /\ UNCHANGED <<table, processes, terminateList, pidMap, scheduler, core, pc,
                     newPid, owed>>

(* An error of the loader or of the stack's allocation leaves prepare_exec *)
(* through try, and read and write refuse a null buffer, with context      *)
(* switching still blocked.                                                *)
RefusedCall(p) ==
  /\ Executes(p, "user")
  /\ "badCall" \in Habits
  /\ gate.counter < MaxBlocked
  /\ gate' = Block(gate)
  /\ UNCHANGED <<table, processes, terminateList, pidMap, scheduler, core, pc,
                 newPid, owed, mode>>

-----------------------------------------------------------------------------
(* delete_process(p.pid, rc) of the table t: the parent and everybody who  *)
(* waits for p is released, p leaves the process list and waits to be      *)
(* destroyed by the next context switch.                                   *)
Deleted(t, p, rc) ==
  UnblockAll(ScheduleRemoval(UnblockParent(t, p), p), p, rc)

Delete(t, p, rc) ==
  LET deleted == Deleted(t, p, rc)
      moved   == SetNext(scheduler, deleted, t[p].parent)
  IN  /\ processes' = RemoveAt(processes, Position(processes, p))
      /\ terminateList' = Append(terminateList, p)
      /\ owed' = [w \in Proc |->
                    IF [blocked |-> w, action |-> "waitpid"] \in t[p].blocks
                    THEN rc ELSE owed[w]]
      /\ \/ /\ t[p].vforkContext       \* back into the parent's vfork
            /\ table' = moved.table
            /\ scheduler' = moved.scheduler
            /\ core' = t[p].parent
            /\ gate' = Unblock(Block(gate))
            /\ pc' = [pc EXCEPT ![t[p].parent] = "user"]
         \/ /\ ~t[p].vforkContext      \* p spins until it is switched away
            /\ table' = deleted
            /\ gate' = Block(gate)
            /\ pc' = [pc EXCEPT ![p] = "exit"]
            /\ UNCHANGED <<scheduler, core>>
      /\ UNCHANGED <<pidMap, newPid, mode>>

(* delete_process finds p by its pid in the process list.                  *)
MayEnd(p) ==
  /\ Executes(p, "user") /\ p \in ToSet(processes)
  /\ "orphans" \in Habits \/ Children(p) = {}
  /\ gate.counter < MaxBlocked

(* What becomes of the kernel when p ends: its parent pointer and those to *)
(* the processes that wait for it are followed without asking whether they *)
(* still exist.                                                            *)
EndFault(p) ==
  IF \E q \in {table[p].parent} \cup {e.blocked : e \in table[p].blocks} :
       Dangling(table, q)
  THEN "useAfterFree"
  ELSE IF UnblockParentPanics(table, p) THEN "panic" ELSE "none"

(* Mutant: nothing is left with the parent.                                *)
ExitForgetsCode(p, rc) == MayEnd(p) /\ EndFault(p) = "none" /\ Delete(table, p, rc)

(* sys_exit: the code is left with the parent, which a later waitpid asks. *)
Exit(p, rc) ==
  LET parent == table[p].parent
      told == IF parent = Null THEN table
              ELSE [table EXCEPT ![parent].childExitCode = rc]
  IN  MayEnd(p) /\ EndFault(p) = "none" /\ Delete(told, p, rc)

(* sys_kill ends the calling process; no code is left with the parent.     *)
Kill(p) ==
  /\ "abort" \in Habits
  /\ MayEnd(p) /\ EndFault(p) = "none"
  /\ Delete(table, p, -1)

(* Either of them when the parent pointer dangles, or when somebody waits  *)
(* for a process without parent.                                           *)
EndFaults(p) ==
  /\ MayEnd(p)
  /\ EndFault(p) # "none"
  /\ mode' = EndFault(p)
  /\ gate' = Block(gate)
  /\ UNCHANGED <<table, processes, terminateList, pidMap, scheduler, core, pc,
                 newPid, owed>>

(* The loop at the end of delete_process.                                  *)
ExitSpin(p) ==
  /\ Executes(p, "exit")
  /\ gate' = Unblock(gate)
  /\ UNCHANGED <<table, processes, terminateList, pidMap, scheduler, core, pc,
                 newPid, owed, mode>>

-----------------------------------------------------------------------------
(* waitpid of a process in the list: wait for it with switching blocked.   *)
WaitpidBegin(p, q) ==
  /\ Executes(p, "user")
  /\ q \in ToSet(processes)
  /\ "strangerWait" \in Habits \/ table[q].parent = p
  /\ gate.counter < MaxBlocked
  /\ gate' = Block(gate)
  /\ table' = WaitForProcess(table, p, q, "waitpid")
  /\ pc' = [pc EXCEPT ![p] = "waitpid"]
  /\ UNCHANGED <<processes, terminateList, pidMap, scheduler, core, newPid, owed,
                 mode>>

(* The loop of waitpid: as long as p is blocked it lets others run.  The   *)
(* code unblocks, raises a PendSV and only then re-evaluates p.  A switch  *)
(* between the two comes to the same as one after this step: p is blocked  *)
(* and waits, so re-evaluating it changes nothing, and when p resumes,     *)
(* WaitpidReturn re-evaluates it if it was woken, this step if it was not. *)
WaitpidSpin(p) ==
  /\ Executes(p, "waitpid")
  /\ table[p].state = "Blocked"
  /\ gate' = Unblock(gate)
  /\ table' = Reevaluate(table, p)
  /\ UNCHANGED <<processes, terminateList, pidMap, scheduler, core, pc, newPid,
                 owed, mode>>

(* p was woken: whatever its waiting action stored is replaced by the code *)
(* of the child that ended last.                                           *)
WaitpidReturn(p) ==
  /\ Executes(p, "waitpid")
  /\ table[p].state # "Blocked"
  /\ table' = [table EXCEPT ![p] =
                 [Reevaluated(@) EXCEPT !.status = table[p].childExitCode]]
  /\ pc' = [pc EXCEPT ![p] = "user"]
  /\ owed' = [owed EXCEPT ![p] = Null]
  /\ UNCHANGED <<processes, terminateList, pidMap, scheduler, core, gate, newPid,
                 mode>>

(* waitpid of a pid nobody in the list has returns at once, with switching *)
(* still blocked.                                                          *)
WaitpidUnknown(p, n) ==
  /\ Executes(p, "user")
  /\ "lateWait" \in Habits
  /\ ProcessesForPid(n) = {}
  /\ gate.counter < MaxBlocked
  /\ gate' = Block(gate)
  /\ table' = [table EXCEPT ![p].status = table[p].childExitCode]
  /\ UNCHANGED <<processes, terminateList, pidMap, scheduler, core, pc, newPid,
                 owed, mode>>

-----------------------------------------------------------------------------
(* create_process takes a pid, builds the process and appends it: three    *)
(* sections between which a context switch may come.                       *)
CreateTakePid(p) ==
  /\ Executes(p, "user")
  /\ "create" \in Habits
  /\ pidMap # {}
  /\ pidMap' = pidMap \ {NextPid}
  /\ newPid' = [newPid EXCEPT ![p] = NextPid]
  /\ pc' = [pc EXCEPT ![p] = "create"]
  /\ UNCHANGED <<table, processes, terminateList, scheduler, core, gate, owed, mode>>

CreateAppend(p) ==
  /\ Executes(p, "create")
  /\ \E q \in FreeSlots :
       /\ table' = [table EXCEPT ![q] = NewProcess(newPid[p])]
       /\ processes' = Append(processes, q)
       /\ pc' = [pc EXCEPT ![p] = "user", ![q] = "user"]
  /\ newPid' = [newPid EXCEPT ![p] = 0]
  /\ gate' = Unblock(Block(gate))
  /\ UNCHANGED <<terminateList, pidMap, scheduler, core, owed, mode>>

(* Process.init fails: the pid stays taken.                                *)
CreateOutOfMemory(p) ==
  /\ Executes(p, "create")
  /\ "outOfMemory" \in Habits \/ FreeSlots = {}
  /\ newPid' = [newPid EXCEPT ![p] = 0]
  /\ pc' = [pc EXCEPT ![p] = "user"]
  /\ UNCHANGED <<table, processes, terminateList, pidMap, scheduler, core, gate,
                 owed, mode>>

SystemCall(p) ==
  \/ Vfork(p) \/ VforkWithoutPid(p) \/ VforkOutOfMemory(p)
  \/ Exec(p) \/ ReExec(p) \/ ExecFaults(p) \/ RefusedCall(p)
  \/ \E rc \in Code : Exit(p, rc)
  \/ Kill(p) \/ EndFaults(p)
  \/ \E q \in Proc : WaitpidBegin(p, q)
  \/ \E n \in Pid : WaitpidUnknown(p, n)
  \/ CreateTakePid(p)

(* What a process does without its program's doing.                        *)
KernelStep(p) ==
  \/ ExitSpin(p)
  \/ WaitpidSpin(p) \/ WaitpidReturn(p)
  \/ CreateAppend(p) \/ CreateOutOfMemory(p)

Next ==
  \/ StartRoot
  \/ ContextSwitch
  \/ \E p \in Proc : SystemCall(p) \/ KernelStep(p)

Spec == Init /\ [][Next]_vars

(* The system tick keeps raising PendSV.  A process keeps the processor    *)
(* for a slice of 100 ticks, in which the kernel's own loops advance: a    *)
(* process that gets the processor again and again does not stay in them.  *)
(* Programs need not call the kernel at all.                               *)
Fairness ==
  /\ WF_vars(StartRoot)
  /\ WF_vars(ContextSwitch)
  /\ \A p \in Proc : SF_vars(KernelStep(p))

FairSpec == Spec /\ Fairness

-----------------------------------------------------------------------------
(* Properties.                                                             *)

Live == {p \in Proc : table[p].state # "Free"}

(* Every pid has at most one holder: no two process objects, a dead one    *)
(* not yet destroyed included, and no create_process call in progress hold *)
(* the same pid, and a held pid is never offered by get_next_pid again.    *)
PidUnique ==
  LET creating == {p \in Proc : pc[p] = "create"}
  IN  /\ \A p, q \in Live : table[p].pid = table[q].pid => p = q
      /\ \A p \in Live : table[p].pid \in Pid \ pidMap
      /\ \A p \in creating :
           /\ newPid[p] \in Pid \ pidMap
           /\ \A q \in Live : table[q].pid # newPid[p]
           /\ \A q \in creating \ {p} : newPid[q] # newPid[p]

(* The process list and the terminate list hold every object exactly once, *)
(* the dead in the latter: each is destroyed once and none is lost.        *)
ListsExact ==
  LET both == processes \o terminateList
  IN  /\ ToSet(both) = Live
      /\ \A i, j \in DOMAIN both : both[i] = both[j] => i = j
      /\ mode = "running" =>
           \A p \in Live : table[p].state = "Terminated" <=> p \in ToSet(terminateList)

(* As long as a vfork child lives on its parent's stack the parent does    *)
(* not execute and cannot be scheduled, and nobody else borrows that stack.*)
(* Stated of programs that call exec in fresh vfork children only: that of *)
(* any other process makes its parent run whatever the parent waits for,   *)
(* and with "reExec" TLC finds the parent on the borrowed stack.           *)
BorrowedStackSafe ==
  mode = "running" =>
    \A q \in ToSet(processes) : table[q].stackShared =>
      LET p == table[q].parent
      IN  /\ p \in ToSet(processes) /\ core # p
          /\ table[p].state = "Blocked"
          /\ \A r \in ToSet(processes) :
               table[r].stackShared /\ table[r].parent = p => r = q

(* A process waits for another exactly if that one knows it has to wake    *)
(* it: no wake-up can be lost, and unblock_all follows no stale pointer.   *)
WaitersKnown ==
  \A p, q \in Proc :
    q \in table[p].blockedBy <=> \E e \in table[q].blocks : e.blocked = p

(* A process that waits for another is blocked, so the scheduler will not  *)
(* choose it, and waits only for processes that still live.  Stated of the *)
(* same programs as BorrowedStackSafe, for the same reason.                *)
WaitersBlocked ==
  mode = "running" =>
    \A p \in ToSet(processes) : table[p].blockedBy # {} =>
      /\ table[p].state = "Blocked"
      /\ table[p].blockedBy \subseteq ToSet(processes)

(* The processor executes the process the scheduler takes for the current  *)
(* one; it has none only while a destroyed process spins at its end, so    *)
(* registers are never stored into a destroyed process.                    *)
CurrentIsCore ==
  mode = "running" =>
    /\ scheduler.next = Null
    /\ scheduler.current \in {core, Null}
    /\ scheduler.current = Null => table[core].state = "Free" /\ pc[core] = "exit"

(* Context switching is enabled exactly if the nesting counter is zero.    *)
GateAgrees == gate.enabled <=> gate.counter = 0

(* Program code is never executed with context switching blocked.          *)
UserCodeIsPreemptible ==
  mode = "running" /\ pc[core] = "user" => gate.enabled

(* Some process of the list can always execute: waiting never deadlocks.   *)
SomebodyCanRun ==
  mode = "running" =>
    \/ pc[core] = "user" /\ table[core].state # "Free"
    \/ \E p \in ToSet(processes) : table[p].state # "Blocked"
    \/ processes = <<>>

(* The kernel follows no pointer to a destroyed process and never panics.  *)
NoFault == mode \in {"boot", "running", "main"}

(* waitpid reports the exit code of the process it was asked to wait for.  *)
WaitpidReportsItsChild ==
  [][\A p \in Proc : Executes(p, "waitpid") /\ pc'[p] = "user"
       => table'[p].status = owed[p]]_vars

(* A pid nobody holds can be given out again, the highest one excepted,    *)
(* which release_pid never gives back.                                     *)
PidsReturn ==
  mode = "running" =>
    \A n \in Pid \ {MaxPid} : n \in pidMap \/ \E p \in Live : table[p].pid = n

(* A ready process is eventually executed, whatever the others do.         *)
EveryoneRuns ==
  \A p \in Proc : (p \in ToSet(processes) /\ table[p].state = "Ready")
                    ~> (core = p \/ mode # "running")

(* A waitpid whose process has ended eventually returns.                   *)
WaiterReturns ==
  \A p \in Proc : (pc[p] = "waitpid" /\ table[p].blockedBy = {})
                    ~> (pc[p] = "user" \/ mode # "running")

(* An ended process is eventually destroyed and its pid given back.        *)
DeadAreReaped ==
  \A p \in Proc : p \in ToSet(terminateList)
                    ~> (p \notin ToSet(terminateList) \/ mode # "running")
=============================================================================
