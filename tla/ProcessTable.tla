---------------------------- MODULE ProcessTable ----------------------------
(***************************************************************************)
(* The process objects of kernel/process.zig and the operations the kernel *)
(* performs on them.  A "table" maps every heap address a Process object   *)
(* can have to the object stored there, so that a pointer that outlives    *)
(* its object, or the reuse of an address, is visible.                     *)
(*                                                                         *)
(* The two intrusive lists of a process are kept as sets: the code only    *)
(* appends to them, removes every matching entry, or tests for emptiness.  *)
(* An entry could occur twice only if a process waited again before it was *)
(* woken, which takes a second exec (ProcessManager!ReExec): wake-ups then *)
(* remove both entries at once, and what each is told is the same.         *)
(***************************************************************************)
EXTENDS Integers

CONSTANTS
  Proc,     \* heap addresses a Process object can be allocated at
  Null,     \* the null pointer
  MaxPid,   \* config.process.max_pid_value
  Code      \* exit codes; the kernel itself produces 0, and -1 for a kill

ASSUME NullAssumption == Null \notin Proc
ASSUME ProcAssumption == Proc # {}   \* there is room for the root process
ASSUME MaxPidAssumption == MaxPid \in Nat \ {0}
ASSUME CodeAssumption == Code \subseteq Int /\ 0 \in Code

Pid == 1..MaxPid

(* "Free" marks an address that holds no object.                           *)
State == {"Free", "Ready", "Blocked", "Running", "Terminated"}

(* What the owner of a _blocks entry is told when it is unblocked: vfork   *)
(* registers an empty action, waitpid one that stores the code in *status. *)
UnblockAction == {"vfork", "waitpid"}
BlockedProcessAction == [blocked : Proc, action : UnblockAction]

Process ==
  [state         : State,
   pid           : 0..MaxPid,
   parent        : Proc \cup {Null},
   blockedBy     : SUBSET Proc,
   blocks        : SUBSET BlockedProcessAction,
   vforkContext  : BOOLEAN,   \* _vfork_context # null
   stackShared   : BOOLEAN,   \* impl.stack_is_shared
   initialized   : BOOLEAN,   \* _initialized
   childExitCode : Code,
   status        : Code]      \* the int its waitpid call points at

Table == [Proc -> Process]

NoProcess ==
  [state |-> "Free", pid |-> 0, parent |-> Null, blockedBy |-> {},
   blocks |-> {}, vforkContext |-> FALSE, stackShared |-> FALSE,
   initialized |-> FALSE, childExitCode |-> 0, status |-> 0]

-----------------------------------------------------------------------------
(* Process.init and Process.vfork build the object; they do not touch the  *)
(* process list.                                                           *)
NewProcess(n) == [NoProcess EXCEPT !.state = "Ready", !.pid = n]

VforkedProcess(parent, n) ==
  [NewProcess(n) EXCEPT !.parent = parent, !.stackShared = TRUE]

(* Mutant: only the semaphore is asked.                                    *)
ReevaluatedIgnoringWaits(r) ==
  [r EXCEPT !.state = IF @ = "Terminated" THEN @ ELSE "Ready"]

(* reevaluate_state; waiting_for (the semaphore) is always null here:      *)
(* semaphores are not modelled, and nothing in the kernel uses one.        *)
Reevaluated(r) ==
  [r EXCEPT !.state = IF @ = "Terminated" THEN @
                      ELSE IF r.blockedBy # {} THEN "Blocked" ELSE "Ready"]

Reevaluate(t, p) == [t EXCEPT ![p] = Reevaluated(@)]

(* wait_for_process: p waits until q is finished.                          *)
WaitForProcess(t, p, q, action) ==
  Reevaluate([t EXCEPT ![q].blocks = @ \cup {[blocked |-> p, action |-> action]},
                       ![p].blockedBy = @ \cup {q}],
             p)

(* Mutant: the list is shortened, the state left as it is.                 *)
UnblockedFromNotReevaluated(r, q) == [r EXCEPT !.blockedBy = @ \ {q}]

(* unblock_from: the object r no longer waits for q.                       *)
UnblockedFrom(r, q) == Reevaluated([r EXCEPT !.blockedBy = @ \ {q}])

(* action.action(action.context, rc) of every entry of es that blocks p.   *)
Notified(r, p, es, rc) ==
  IF [blocked |-> p, action |-> "waitpid"] \in es
  THEN [r EXCEPT !.status = rc] ELSE r

(* Mutant: the parent's action runs, the parent is not unblocked.          *)
UnblockParentNotReleased(t, p) == [t EXCEPT ![p].blocks = {}]

(* unblock_parent: p tells its parent, and only its parent, that it is     *)
(* free to run; the result passed to the parent's action is always 0.      *)
UnblockParent(t, p) ==
  LET parent  == t[p].parent
      toldOff == {e \in t[p].blocks : e.blocked = parent}
      self    == [t EXCEPT ![p] = Reevaluated([t[p] EXCEPT !.blocks = @ \ toldOff])]
  IN  IF parent = Null THEN self
      ELSE [self EXCEPT ![parent] =
              UnblockedFrom(Notified(@, parent, toldOff, 0), p)]

(* unblock_all: every process that waits for p is told rc and released.    *)
UnblockAll(t, p, rc) ==
  LET waiters == {e.blocked : e \in t[p].blocks}
      self    == [t EXCEPT ![p].blocks = {}]
  IN  [w \in Proc |->
         IF w \in waiters
         THEN UnblockedFrom(Notified(self[w], w, t[p].blocks, rc), p)
         ELSE self[w]]

(* schedule_removal.                                                       *)
ScheduleRemoval(t, p) == [t EXCEPT ![p].state = "Terminated"]

(* unblock_parent dereferences _parent with .? for every _blocks entry.    *)
UnblockParentPanics(t, p) == t[p].parent = Null /\ t[p].blocks # {}

(* A pointer to an address whose object has been destroyed.                *)
Dangling(t, p) == p # Null /\ t[p].state = "Free"
=============================================================================
