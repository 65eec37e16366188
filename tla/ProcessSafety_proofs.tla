------------------------- MODULE ProcessSafety_proofs -------------------------
(***************************************************************************)
(* What the process manager keeps as long as no program calls exec a       *)
(* second time (nor the root process, which no exec loaded, at all),       *)
(* whatever else programs do: lists and waiting processes                  *)
(* agree with the objects, the stack a vfork child borrows is left alone,  *)
(* no pid has two holders.  And what it keeps while they leave out further *)
(* habits, each theorem naming its own: no pid is lost, programs are       *)
(* preemptible, waiting never deadlocks, the kernel does not fail, waitpid *)
(* reports the code of the child it names.                                 *)
(***************************************************************************)
EXTENDS ProcessManager_proofs

-----------------------------------------------------------------------------
(* Lists of processes.                                                     *)
OneToOne(list) == \A i, j \in DOMAIN list : list[i] = list[j] => i = j

(* The elements of a list, by position.                                    *)
LEMMA Elements ==
  ASSUME NEW list \in Seq(Proc)
  PROVE  /\ Len(list) \in Nat /\ DOMAIN list = 1..Len(list)
         /\ ToSet(list) = {list[i] : i \in 1..Len(list)}
         /\ ToSet(list) \subseteq Proc
         /\ \A x : x \in ToSet(list) <=> \E i \in 1..Len(list) : list[i] = x
BY LenProperties, ElementOfSeq DEF ToSet

(* Appending a process adds it to the elements.                            *)
LEMMA AppendElements ==
  ASSUME NEW list \in Seq(Proc), NEW x \in Proc
  PROVE  /\ ToSet(Append(list, x)) = ToSet(list) \cup {x}
         /\ OneToOne(list) /\ x \notin ToSet(list) => OneToOne(Append(list, x))
<1> DEFINE longer == Append(list, x)
<1>1. /\ longer \in Seq(Proc) /\ Len(longer) = Len(list) + 1
      /\ \A i \in 1..Len(list) : longer[i] = list[i]
      /\ longer[Len(list) + 1] = x
  BY AppendProperties
<1> HIDE DEF longer
<1>2. /\ Len(list) \in Nat /\ DOMAIN list = 1..Len(list)
      /\ DOMAIN longer = 1..Len(list) + 1
  BY <1>1, LenProperties
<1>3. \A i \in 1..Len(list) + 1 : i \in 1..Len(list) \/ i = Len(list) + 1
  BY <1>2
<1>4. ToSet(longer) = ToSet(list) \cup {x}
  BY <1>1, <1>2, <1>3, Elements
<1>5. ASSUME OneToOne(list), x \notin ToSet(list) PROVE OneToOne(longer)
  BY <1>1, <1>2, <1>3, <1>5, Elements DEF OneToOne
<1> QED
  BY <1>4, <1>5 DEF longer

(* A removed element leaves the others in their order.                     *)
LEMMA RemoveAtPlaces ==
  ASSUME NEW list \in Seq(Proc), NEW k \in 1..Len(list)
  PROVE  /\ RemoveAt(list, k) \in Seq(Proc)
         /\ Len(RemoveAt(list, k)) = Len(list) - 1
         /\ \A i \in 1..Len(list) - 1 :
              RemoveAt(list, k)[i] = list[IF i < k THEN i ELSE i + 1]
<1>1. /\ Len(list) \in Nat /\ k \in Nat
      /\ \A i \in 1..Len(list) : list[i] \in Proc
  BY LenProperties, ElementOfSeq
<1> DEFINE before == SubSeq(list, 1, k - 1)
           after  == SubSeq(list, k + 1, Len(list))
<1>2. /\ before \in Seq(Proc) /\ Len(before) = k - 1
      /\ \A i \in 1..k - 1 : before[i] = list[i]
  <2>1. /\ before \in Seq(Proc)
        /\ Len(before) = IF 1 =< k - 1 THEN k - 1 - 1 + 1 ELSE 0
        /\ \A i \in 1..k - 1 - 1 + 1 : before[i] = list[1 + i - 1]
    BY <1>1, SubSeqProperties
  <2> QED
    BY <1>1, <2>1
<1>3. /\ after \in Seq(Proc) /\ Len(after) = Len(list) - k
      /\ \A i \in 1..Len(list) - k : after[i] = list[k + i]
  <2>1. /\ after \in Seq(Proc)
        /\ Len(after) = IF k + 1 =< Len(list) THEN Len(list) - (k + 1) + 1 ELSE 0
        /\ \A i \in 1..Len(list) - (k + 1) + 1 : after[i] = list[k + 1 + i - 1]
    BY <1>1, SubSeqProperties
  <2> QED
    BY <1>1, <2>1
<1>4. RemoveAt(list, k) = before \o after
  BY DEF RemoveAt
<1> HIDE DEF before, after
<1>5. /\ before \o after \in Seq(Proc)
      /\ Len(before \o after) = Len(list) - 1
      /\ \A i \in 1..Len(list) - 1 :
           (before \o after)[i] = IF i =< k - 1 THEN before[i] ELSE after[i - (k - 1)]
  <2>1. /\ before \o after \in Seq(Proc)
        /\ Len(before \o after) = Len(before) + Len(after)
        /\ \A i \in 1..Len(before) + Len(after) :
             (before \o after)[i] =
               IF i =< Len(before) THEN before[i] ELSE after[i - Len(before)]
    BY <1>2, <1>3, ConcatProperties
  <2>2. Len(before) = k - 1 /\ Len(before) + Len(after) = Len(list) - 1
    BY <1>1, <1>2, <1>3
  <2> QED
    BY <2>1, <2>2
<1>6. ASSUME NEW i \in 1..Len(list) - 1
      PROVE  (before \o after)[i] = list[IF i < k THEN i ELSE i + 1]
  <2>1. CASE i < k
    BY <1>1, <1>2, <1>5, <2>1
  <2>2. CASE ~(i < k)
    <3>1. i - (k - 1) \in 1..Len(list) - k /\ k + (i - (k - 1)) = i + 1
      BY <1>1, <2>2
    <3>2. (before \o after)[i] = after[i - (k - 1)]
      BY <1>1, <1>5, <2>2
    <3> QED
      BY <1>3, <2>2, <3>1, <3>2
  <2> QED
    BY <2>1, <2>2
<1> QED
  BY <1>4, <1>5, <1>6

(* The list without a process it had once.                                 *)
LEMMA RemovedElements ==
  ASSUME NEW list \in Seq(Proc), OneToOne(list), NEW p \in ToSet(list)
  PROVE  LET rest == RemoveAt(list, Position(list, p))
         IN  /\ rest \in Seq(Proc) /\ OneToOne(rest)
             /\ ToSet(rest) = ToSet(list) \ {p}
<1> DEFINE k == Position(list, p)
           rest == RemoveAt(list, k)
           old(i) == IF i < k THEN i ELSE i + 1
<1>1. /\ Len(list) \in Nat /\ DOMAIN list = 1..Len(list)
      /\ k \in 1..Len(list) /\ list[k] = p
  BY Elements DEF Position
<1> HIDE DEF k
<1>2. /\ rest \in Seq(Proc) /\ Len(rest) = Len(list) - 1
      /\ \A i \in 1..Len(list) - 1 : rest[i] = list[old(i)]
  BY <1>1, RemoveAtPlaces
<1> HIDE DEF rest
<1>3. DOMAIN rest = 1..Len(list) - 1
  BY <1>2, LenProperties
<1>4. \A i \in 1..Len(list) - 1 : old(i) \in 1..Len(list) /\ old(i) # k
  BY <1>1
<1>5. \A i, j \in 1..Len(list) - 1 : old(i) = old(j) => i = j
  BY <1>1
<1>6. \A m \in 1..Len(list) : m = k \/ \E i \in 1..Len(list) - 1 : old(i) = m
  <2> SUFFICES ASSUME NEW m \in 1..Len(list), m # k
               PROVE  \E i \in 1..Len(list) - 1 : old(i) = m
    OBVIOUS
  <2>1. CASE m < k
    BY <1>1, <2>1
  <2>2. CASE m > k
    <3>1. m - 1 \in 1..Len(list) - 1 /\ old(m - 1) = m
      BY <1>1, <2>2
    <3> QED
      BY <3>1
  <2> QED
    BY <1>1, <2>1, <2>2
<1> HIDE DEF old
<1>7. OneToOne(rest)
  <2> SUFFICES ASSUME NEW i \in 1..Len(list) - 1, NEW j \in 1..Len(list) - 1,
                      rest[i] = rest[j]
               PROVE  i = j
    BY <1>3 DEF OneToOne
  <2>1. list[old(i)] = list[old(j)]
    BY <1>2
  <2>2. old(i) \in DOMAIN list /\ old(j) \in DOMAIN list
    BY <1>1, <1>4
  <2>3. old(i) = old(j)
    BY <2>1, <2>2 DEF OneToOne
  <2> QED
    BY <1>5, <2>3
<1>8. \A i \in 1..Len(list) - 1 : rest[i] \in ToSet(list) \ {p}
  <2> SUFFICES ASSUME NEW i \in 1..Len(list) - 1 PROVE rest[i] \in ToSet(list) \ {p}
    OBVIOUS
  <2>1. rest[i] = list[old(i)] /\ old(i) \in 1..Len(list) /\ old(i) # k
    BY <1>2, <1>4
  <2>2. list[old(i)] # p
    BY <1>1, <2>1 DEF OneToOne
  <2> QED
    BY <2>1, <2>2, Elements
<1>9. ASSUME NEW x \in ToSet(list) \ {p} PROVE \E i \in 1..Len(list) - 1 : rest[i] = x
  <2>1. PICK m \in 1..Len(list) : list[m] = x
    BY Elements
  <2>2. PICK i \in 1..Len(list) - 1 : old(i) = m
    BY <1>1, <1>6, <2>1
  <2> QED
    BY <1>2, <2>1, <2>2
<1>10. ToSet(rest) = ToSet(list) \ {p}
  BY <1>2, <1>8, <1>9, Elements
<1> QED
  BY <1>2, <1>7, <1>10 DEF rest, k

-----------------------------------------------------------------------------
(* The scheduler.                                                          *)

(* schedule_next looks at every process but the current one.               *)
LEMMA SearchOrderElements ==
  ASSUME NEW list \in Seq(Proc), OneToOne(list), NEW current
  PROVE  LET order == SearchOrder(list, current)
         IN  /\ order \in Seq(Proc)
             /\ \A i \in 1..Len(order) : order[i] \in ToSet(list) \ {current}
<1>1. SearchOrder(list, current) \in Seq(Proc)
  BY SearchOrderType
<1>2. CASE current \notin ToSet(list)
  BY <1>1, <1>2, Elements DEF SearchOrder
<1>3. CASE current \in ToSet(list)
  <2> DEFINE k == Position(list, current)
             after  == SubSeq(list, k + 1, Len(list))
             before == SubSeq(list, 1, k - 1)
  <2>1. /\ Len(list) \in Nat /\ DOMAIN list = 1..Len(list)
        /\ k \in 1..Len(list) /\ list[k] = current
    BY <1>3, Elements DEF Position
  <2>2. SearchOrder(list, current) = after \o before
    BY <1>3 DEF SearchOrder
  <2> HIDE DEF k
  <2>3. \A i \in 1..Len(list) : list[i] \in Proc
    BY ElementOfSeq
  <2>4. /\ after \in Seq(Proc)
        /\ Len(after) = IF k + 1 =< Len(list) THEN Len(list) - (k + 1) + 1 ELSE 0
        /\ \A i \in 1..Len(list) - (k + 1) + 1 : after[i] = list[k + 1 + i - 1]
    BY <2>1, <2>3, SubSeqProperties
  <2>5. /\ before \in Seq(Proc)
        /\ Len(before) = IF 1 =< k - 1 THEN k - 1 - 1 + 1 ELSE 0
        /\ \A i \in 1..k - 1 - 1 + 1 : before[i] = list[1 + i - 1]
    BY <2>1, <2>3, SubSeqProperties
  <2>6. \A j \in 1..Len(list) : j # k => list[j] \in ToSet(list) \ {current}
    BY <2>1, Elements DEF OneToOne
  <2>7. \A i \in 1..Len(after) : after[i] \in ToSet(list) \ {current}
    <3> SUFFICES ASSUME NEW i \in 1..Len(after)
                 PROVE  after[i] \in ToSet(list) \ {current}
      OBVIOUS
    <3>1. k + i \in 1..Len(list) /\ k + i # k /\ after[i] = list[k + i]
      BY <2>1, <2>4
    <3> QED
      BY <2>6, <3>1
  <2>8. \A i \in 1..Len(before) : before[i] \in ToSet(list) \ {current}
    <3> SUFFICES ASSUME NEW i \in 1..Len(before)
                 PROVE  before[i] \in ToSet(list) \ {current}
      OBVIOUS
    <3>1. i \in 1..Len(list) /\ i # k /\ before[i] = list[i]
      BY <2>1, <2>5
    <3> QED
      BY <2>6, <3>1
  <2>9. Len(after) \in Nat /\ Len(before) \in Nat
    BY <2>4, <2>5, LenProperties
  <2> HIDE DEF after, before
  <2>10. /\ Len(after \o before) = Len(after) + Len(before)
         /\ \A i \in 1..Len(after) + Len(before) :
              (after \o before)[i] =
                IF i =< Len(after) THEN after[i] ELSE before[i - Len(after)]
    BY <2>4, <2>5, ConcatProperties
  <2>11. ASSUME NEW i \in 1..Len(after) + Len(before)
         PROVE  (after \o before)[i] \in ToSet(list) \ {current}
    <3>1. CASE i =< Len(after)
      BY <2>7, <2>9, <2>10, <3>1
    <3>2. CASE ~(i =< Len(after))
      <4>1. i - Len(after) \in 1..Len(before)
        BY <2>9, <3>2
      <4> QED
        BY <2>8, <2>10, <3>2, <4>1
    <3> QED
      BY <3>1, <3>2
  <2> QED
    BY <1>1, <2>2, <2>10, <2>11
<1> QED
  BY <1>2, <1>3

(* What schedule_next answers without an earlier choice: nothing, or a     *)
(* ready process of the list that is not the current one.                  *)
Chosen(s, t, list, r) ==
  \E n \in ToSet(list) \ {s.current} :
    /\ t[n].state = "Ready"
    /\ r.scheduler = [s EXCEPT !.next = n]
    /\ r.action \in {"Switch", "StoreAndSwitch"}

LEMMA ScheduleNextChooses ==
  ASSUME NEW s \in Scheduler, s.next = Null, NEW t,
         NEW list \in Seq(Proc), OneToOne(list)
  PROVE  LET r == ScheduleNext(s, t, list)
         IN  r = [action |-> "NoAction", scheduler |-> s] \/ Chosen(s, t, list, r)
<1> DEFINE order == SearchOrder(list, s.current)
           ready == {i \in DOMAIN order : t[order[i]].state = "Ready"}
           r     == ScheduleNext(s, t, list)
<1>1. CASE ready = {}
  BY <1>1 DEF ScheduleNext
<1>2. CASE ready # {}
  <2>1. /\ r.scheduler = [s EXCEPT !.next = order[Min(ready)]]
        /\ r.action = SwitchAction(s, t)
    BY <1>2 DEF ScheduleNext
  <2>2. /\ order \in Seq(Proc)
        /\ \A i \in 1..Len(order) : order[i] \in ToSet(list) \ {s.current}
    BY SearchOrderElements
  <2>3. r.action \in {"Switch", "StoreAndSwitch"}
    BY <2>1 DEF SwitchAction
  <2> HIDE DEF order, r
  <2>4. DOMAIN order = 1..Len(order) /\ Len(order) \in Nat
    BY <2>2, LenProperties
  <2>5. Min(ready) \in ready
    <3>1. ready \subseteq Nat
      BY <2>4
    <3> HIDE DEF ready
    <3> QED
      BY <1>2, <3>1, MinOfNaturals
  <2>6. /\ order[Min(ready)] \in ToSet(list) \ {s.current}
        /\ t[order[Min(ready)]].state = "Ready"
    BY <2>2, <2>4, <2>5
  <2> QED
    BY <2>1, <2>3, <2>6 DEF Chosen, r
<1> QED
  BY <1>1, <1>2

-----------------------------------------------------------------------------
(* What the operations leave of a process object.  Its ties to others ...  *)
SameTies(r, s) ==
  /\ s.pid = r.pid /\ s.parent = r.parent
  /\ s.blockedBy = r.blockedBy /\ s.blocks = r.blocks
  /\ s.vforkContext = r.vforkContext /\ s.stackShared = r.stackShared

(* ... those that no waiting changes ...                                   *)
SameOrigin(r, s) ==
  /\ s.pid = r.pid /\ s.parent = r.parent
  /\ s.vforkContext = r.vforkContext /\ s.stackShared = r.stackShared

(* ... and the state reevaluate_state gives it.                            *)
StateOf(old, waitsFor) ==
  IF old = "Terminated" THEN old ELSE IF waitsFor # {} THEN "Blocked" ELSE "Ready"

LEMMA ReevaluatedFields ==
  ASSUME NEW r \in Process
  PROVE  /\ SameTies(r, Reevaluated(r))
         /\ Reevaluated(r).state = StateOf(r.state, r.blockedBy)
BY DEF Reevaluated, StateOf, SameTies, Process

(* update_current: who leaves is re-evaluated, the next one runs.          *)
Moved(t, u, s, n) ==
  \A w \in Proc :
    /\ SameTies(t[w], u[w])
    /\ w = n => u[w].state = "Running"
    /\ w # n /\ w = s.current => u[w].state = StateOf(t[w].state, t[w].blockedBy)
    /\ w # n /\ w # s.current => u[w].state = t[w].state

LEMMA LeaveCurrentFields ==
  ASSUME NEW s \in Scheduler, NEW t \in Table
  PROVE  \A w \in Proc :
           /\ SameTies(t[w], LeaveCurrent(s, t)[w])
           /\ w = s.current => LeaveCurrent(s, t)[w].state = StateOf(t[w].state, t[w].blockedBy)
           /\ w # s.current => LeaveCurrent(s, t)[w].state = t[w].state
<1>1. CASE s.current = Null
  BY <1>1, NullAssumption DEF LeaveCurrent, SameTies
<1>2. CASE s.current # Null
  <2>1. s.current \in Proc
    BY <1>2 DEF Scheduler
  <2>2. LeaveCurrent(s, t) = [t EXCEPT ![s.current] = Reevaluated(t[s.current])]
    BY <1>2 DEF LeaveCurrent, Reevaluate
  <2> SUFFICES ASSUME NEW w \in Proc
               PROVE  /\ SameTies(t[w], LeaveCurrent(s, t)[w])
                      /\ w = s.current => LeaveCurrent(s, t)[w].state = StateOf(t[w].state, t[w].blockedBy)
                      /\ w # s.current => LeaveCurrent(s, t)[w].state = t[w].state
    OBVIOUS
  <2>3. CASE w = s.current
    <3>1. LeaveCurrent(s, t)[w] = Reevaluated(t[w])
      BY <2>1, <2>2, <2>3 DEF Table
    <3> QED
      BY <2>3, <3>1, ReevaluatedFields DEF Table
  <2>4. CASE w # s.current
    <3>1. LeaveCurrent(s, t)[w] = t[w]
      BY <2>1, <2>2, <2>4 DEF Table
    <3> QED
      BY <2>4, <3>1 DEF SameTies
  <2> QED
    BY <2>3, <2>4
<1> QED
  BY <1>1, <1>2

LEMMA UpdateCurrentFields ==
  ASSUME NEW s \in Scheduler, NEW t \in Table, NEW n \in Proc
  PROVE  LET updated == UpdateCurrent([s EXCEPT !.next = n], t)
         IN  /\ updated.scheduler = [current |-> n, next |-> Null]
             /\ Moved(t, updated.table, s, n)
<1> DEFINE chosen == [s EXCEPT !.next = n]
           left   == LeaveCurrent(chosen, t)
           run    == [left[n] EXCEPT !.state = "Running", !.initialized = TRUE]
           after  == [left EXCEPT ![n] = run]
<1>1. chosen \in Scheduler /\ chosen.next = n /\ chosen.current = s.current
  BY DEF Scheduler
<1>2. n # Null
  BY NullAssumption
<1>3. /\ UpdateCurrent(chosen, t).scheduler = [current |-> n, next |-> Null]
      /\ UpdateCurrent(chosen, t).table = after
  BY <1>1, <1>2 DEF UpdateCurrent
<1>4. left \in Table
  BY <1>1, LeaveCurrentType
<1>5. \A w \in Proc :
        /\ SameTies(t[w], left[w])
        /\ w = s.current => left[w].state = StateOf(t[w].state, t[w].blockedBy)
        /\ w # s.current => left[w].state = t[w].state
  <2>1. \A w \in Proc :
          /\ SameTies(t[w], left[w])
          /\ w = chosen.current => left[w].state = StateOf(t[w].state, t[w].blockedBy)
          /\ w # chosen.current => left[w].state = t[w].state
    <3> HIDE DEF chosen
    <3> QED
      BY <1>1, LeaveCurrentFields
  <2> QED
    BY <1>1, <2>1
<1> HIDE DEF left, chosen
<1>6. SameTies(left[n], run) /\ run.state = "Running"
  BY <1>4 DEF SameTies, Table, Process
<1> HIDE DEF run
<1>7. \A w \in Proc : after[w] = IF w = n THEN run ELSE left[w]
  BY <1>4 DEF Table
<1> HIDE DEF after
<1>8. Moved(t, after, s, n)
  BY <1>5, <1>6, <1>7 DEF Moved, SameTies
<1> QED
  BY <1>3, <1>8 DEF chosen

-----------------------------------------------------------------------------
(* wait_for_process: p waits for q, and q knows it.                        *)
LEMMA WaitForProcessFields ==
  ASSUME NEW t \in Table, NEW p \in Proc, NEW q \in Proc, NEW action \in UnblockAction
  PROVE  LET u == WaitForProcess(t, p, q, action)
             e == [blocked |-> p, action |-> action]
         IN  \A w \in Proc :
               /\ SameOrigin(t[w], u[w])
               /\ w = q => u[w].blocks = t[w].blocks \cup {e}
               /\ w # q => u[w].blocks = t[w].blocks
               /\ w = p => u[w].blockedBy = t[w].blockedBy \cup {q}
               /\ w # p => u[w].blockedBy = t[w].blockedBy
               /\ w = p => u[w].state = StateOf(t[w].state, u[w].blockedBy)
               /\ w # p => u[w].state = t[w].state
<1> DEFINE e == [blocked |-> p, action |-> action]
           owner == [t[q] EXCEPT !.blocks = @ \cup {e}]
           told  == [t EXCEPT ![q] = owner]
           waiter == [told[p] EXCEPT !.blockedBy = @ \cup {q}]
           waits == [told EXCEPT ![p] = waiter]
<1>1. WaitForProcess(t, p, q, action) = [waits EXCEPT ![p] = Reevaluated(waits[p])]
  BY DEF WaitForProcess, Reevaluate
<1>2. t[q] \in Process /\ e \in BlockedProcessAction
  BY DEF Table, BlockedProcessAction
<1> HIDE DEF e
<1>3. /\ owner \in Process /\ SameOrigin(t[q], owner)
      /\ owner.blocks = t[q].blocks \cup {e}
      /\ owner.blockedBy = t[q].blockedBy /\ owner.state = t[q].state
  BY <1>2 DEF Process, SameOrigin
<1> HIDE DEF owner
<1>4. told \in Table /\ \A w \in Proc : told[w] = IF w = q THEN owner ELSE t[w]
  BY <1>3 DEF Table
<1> HIDE DEF told
<1>5. /\ waiter \in Process /\ SameOrigin(told[p], waiter)
      /\ waiter.blocks = told[p].blocks
      /\ waiter.blockedBy = told[p].blockedBy \cup {q} /\ waiter.state = told[p].state
  <2>1. told[p] \in Process
    BY <1>4 DEF Table
  <2> QED
    BY <2>1 DEF Process, SameOrigin
<1> HIDE DEF waiter
<1>6. waits \in Table /\ \A w \in Proc : waits[w] = IF w = p THEN waiter ELSE told[w]
  BY <1>4, <1>5 DEF Table
<1> HIDE DEF waits
<1> DEFINE u == WaitForProcess(t, p, q, action)
<1>7. \A w \in Proc : u[w] = IF w = p THEN Reevaluated(waiter) ELSE told[w]
  BY <1>1, <1>6 DEF Table
<1>8. /\ SameTies(waiter, Reevaluated(waiter))
      /\ Reevaluated(waiter).state = StateOf(waiter.state, waiter.blockedBy)
  BY <1>5, ReevaluatedFields
<1> HIDE DEF u
<1> SUFFICES ASSUME NEW w \in Proc
             PROVE  /\ SameOrigin(t[w], u[w])
                    /\ w = q => u[w].blocks = t[w].blocks \cup {e}
                    /\ w # q => u[w].blocks = t[w].blocks
                    /\ w = p => u[w].blockedBy = t[w].blockedBy \cup {q}
                    /\ w # p => u[w].blockedBy = t[w].blockedBy
                    /\ w = p => u[w].state = StateOf(t[w].state, u[w].blockedBy)
                    /\ w # p => u[w].state = t[w].state
  BY DEF u, e
<1>9. told[w] = IF w = q THEN owner ELSE t[w]
  BY <1>4
<1>10. CASE w = p
  BY <1>3, <1>5, <1>7, <1>8, <1>9, <1>10, ZenonT(40) DEF SameOrigin, SameTies
<1>11. CASE w # p
  BY <1>3, <1>7, <1>9, <1>11 DEF SameOrigin
<1> QED
  BY <1>10, <1>11

(* unblock_from.                                                           *)
LEMMA UnblockedFromFields ==
  ASSUME NEW r \in Process, NEW q
  PROVE  LET s == UnblockedFrom(r, q)
         IN  /\ SameOrigin(r, s) /\ s.blocks = r.blocks
             /\ s.blockedBy = r.blockedBy \ {q}
             /\ s.state = StateOf(r.state, s.blockedBy)
<1> DEFINE less == [r EXCEPT !.blockedBy = @ \ {q}]
<1>1. /\ less \in Process /\ SameOrigin(r, less) /\ less.blocks = r.blocks
      /\ less.blockedBy = r.blockedBy \ {q} /\ less.state = r.state
  BY DEF Process, SameOrigin
<1>2. UnblockedFrom(r, q) = Reevaluated(less)
  BY DEF UnblockedFrom
<1> HIDE DEF less
<1>3. /\ SameTies(less, Reevaluated(less))
      /\ Reevaluated(less).state = StateOf(less.state, less.blockedBy)
  BY <1>1, ReevaluatedFields
<1> QED
  BY <1>1, <1>2, <1>3 DEF SameOrigin, SameTies

(* The action of an unblocked process stores a code, nothing else.         *)
LEMMA NotifiedFields ==
  ASSUME NEW r \in Process, NEW p, NEW es, NEW rc \in Code
  PROVE  LET s == Notified(r, p, es, rc)
         IN  s \in Process /\ SameTies(r, s) /\ s.state = r.state
BY DEF Notified, Process, SameTies

(* unblock_parent: the parent, and only the parent, no longer waits for p. *)
LEMMA UnblockParentFields ==
  ASSUME NEW t \in Table, NEW p \in Proc
  PROVE  LET u == UnblockParent(t, p)
             parent == t[p].parent
         IN  \A w \in Proc :
               /\ SameOrigin(t[w], u[w])
               /\ w = p => u[w].blocks = {e \in t[w].blocks : e.blocked # parent}
               /\ w # p => u[w].blocks = t[w].blocks
               /\ w = parent => u[w].blockedBy = t[w].blockedBy \ {p}
               /\ w # parent => u[w].blockedBy = t[w].blockedBy
               /\ w \in {p, parent} => u[w].state = StateOf(t[w].state, u[w].blockedBy)
               /\ w \notin {p, parent} => u[w].state = t[w].state
<1> DEFINE parent  == t[p].parent
           toldOff == {e \in t[p].blocks : e.blocked = parent}
           rest    == [t[p] EXCEPT !.blocks = @ \ toldOff]
           self    == [t EXCEPT ![p] = Reevaluated(rest)]
           u       == UnblockParent(t, p)
<1>1. t[p] \in Process /\ parent \in Proc \cup {Null}
  BY DEF Table, Process
<1>2. \A e \in t[p].blocks : e.blocked \in Proc
  BY <1>1 DEF Process, BlockedProcessAction
<1>3. t[p].blocks \ toldOff = {e \in t[p].blocks : e.blocked # parent}
  OBVIOUS
<1>4. /\ rest \in Process /\ SameOrigin(t[p], rest)
      /\ rest.blocks = t[p].blocks \ toldOff
      /\ rest.blockedBy = t[p].blockedBy /\ rest.state = t[p].state
  <2> HIDE DEF toldOff
  <2> QED
    BY <1>1 DEF Process, SameOrigin
<1> HIDE DEF rest
<1>5. /\ Reevaluated(rest) \in Process
      /\ SameTies(rest, Reevaluated(rest))
      /\ Reevaluated(rest).state = StateOf(rest.state, rest.blockedBy)
  BY <1>4, ReevaluatedFields, ReevaluatedType
<1>6. self \in Table /\ \A w \in Proc : self[w] = IF w = p THEN Reevaluated(rest) ELSE t[w]
  BY <1>5 DEF Table
<1> HIDE DEF self
<1> DEFINE left == {e \in t[p].blocks : e.blocked # parent}
<1>7. \A w \in Proc :
        /\ SameOrigin(t[w], self[w])
        /\ w = p => self[w].blocks = left
        /\ w # p => self[w].blocks = t[w].blocks
        /\ self[w].blockedBy = t[w].blockedBy
        /\ w = p => self[w].state = StateOf(t[w].state, t[w].blockedBy)
        /\ w # p => self[w].state = t[w].state
  <2> HIDE DEF left, toldOff, parent
  <2>1. t[p].blocks \ toldOff = left
    BY <1>3 DEF left, toldOff, parent
  <2> QED
    BY <1>4, <1>5, <1>6, <2>1 DEF SameOrigin, SameTies
<1>8. \A w \in Proc : u[w] = IF w = parent
                             THEN UnblockedFrom(Notified(self[w], w, toldOff, 0), p)
                             ELSE self[w]
  <2>1. CASE parent = Null
    <3>1. u = self
      BY <2>1 DEF UnblockParent, self, rest
    <3> QED
      BY <2>1, <3>1, NullAssumption
  <2>2. CASE parent # Null
    <3>1. u = [self EXCEPT ![parent] =
                 UnblockedFrom(Notified(self[parent], parent, toldOff, 0), p)]
      BY <2>2 DEF UnblockParent, self, rest
    <3> HIDE DEF u, toldOff
    <3>2. parent \in Proc
      BY <1>1, <2>2
    <3> HIDE DEF parent
    <3> QED
      BY <1>6, <3>1, <3>2 DEF Table
  <2> QED
    BY <2>1, <2>2
<1> HIDE DEF u, left, toldOff
<1>9. ASSUME NEW w \in Proc, w = parent
      PROVE  /\ SameOrigin(self[w], u[w]) /\ u[w].blocks = self[w].blocks
             /\ u[w].blockedBy = self[w].blockedBy \ {p}
             /\ u[w].state = StateOf(self[w].state, u[w].blockedBy)
  <2> DEFINE told == Notified(self[w], w, toldOff, 0)
  <2>1. self[w] \in Process /\ 0 \in Code
    BY <1>6, CodeAssumption DEF Table
  <2>2. told \in Process /\ SameTies(self[w], told) /\ told.state = self[w].state
    BY <2>1, NotifiedFields
  <2>3. u[w] = UnblockedFrom(told, p)
    BY <1>8, <1>9
  <2> HIDE DEF told
  <2>4. /\ SameOrigin(told, u[w]) /\ u[w].blocks = told.blocks
        /\ u[w].blockedBy = told.blockedBy \ {p}
        /\ u[w].state = StateOf(told.state, u[w].blockedBy)
    BY <2>2, <2>3, UnblockedFromFields
  <2> QED
    BY <2>2, <2>4 DEF SameOrigin, SameTies
<1> SUFFICES ASSUME NEW w \in Proc
             PROVE  /\ SameOrigin(t[w], u[w])
                    /\ w = p => u[w].blocks = left
                    /\ w # p => u[w].blocks = t[w].blocks
                    /\ w = parent => u[w].blockedBy = t[w].blockedBy \ {p}
                    /\ w # parent => u[w].blockedBy = t[w].blockedBy
                    /\ w \in {p, parent} => u[w].state = StateOf(t[w].state, u[w].blockedBy)
                    /\ w \notin {p, parent} => u[w].state = t[w].state
  BY DEF u, left
<1> HIDE DEF parent
<1>10. CASE w = parent
  <2>1. /\ SameOrigin(t[w], u[w])
        /\ w = p => u[w].blocks = left
        /\ w # p => u[w].blocks = t[w].blocks
        /\ u[w].blockedBy = t[w].blockedBy \ {p}
    BY <1>7, <1>9, <1>10 DEF SameOrigin
  <2>2. u[w].state = StateOf(t[w].state, u[w].blockedBy)
    BY <1>7, <1>9, <1>10 DEF StateOf
  <2> QED
    BY <1>10, <2>1, <2>2
<1>11. CASE w # parent
  <2>1. u[w] = self[w]
    BY <1>8, <1>11
  <2> QED
    BY <1>7, <1>11, <2>1
<1> QED
  BY <1>10, <1>11

(* The processes that wait for p.                                          *)
WaitersOf(t, p) == {e.blocked : e \in t[p].blocks}

(* unblock_all: nobody who waits for p waits for it afterwards.            *)
LEMMA UnblockAllFields ==
  ASSUME NEW t \in Table, NEW p \in Proc, NEW rc \in Code
  PROVE  LET u == UnblockAll(t, p, rc)
         IN  \A w \in Proc :
               /\ SameOrigin(t[w], u[w])
               /\ (w = p => u[w].blocks = {}) /\ (w # p => u[w].blocks = t[w].blocks)
               /\ w \in WaitersOf(t, p) => u[w].blockedBy = t[w].blockedBy \ {p}
               /\ w \notin WaitersOf(t, p) => u[w].blockedBy = t[w].blockedBy
               /\ w \in WaitersOf(t, p) => u[w].state = StateOf(t[w].state, u[w].blockedBy)
               /\ w \notin WaitersOf(t, p) => u[w].state = t[w].state
<1> DEFINE waiters == WaitersOf(t, p)
           bare    == [t[p] EXCEPT !.blocks = {}]
           self    == [t EXCEPT ![p] = bare]
           told(w) == Notified(self[w], w, t[p].blocks, rc)
           u       == UnblockAll(t, p, rc)
<1>1. /\ bare \in Process /\ SameOrigin(t[p], bare) /\ bare.blocks = {}
      /\ bare.blockedBy = t[p].blockedBy /\ bare.state = t[p].state
  BY DEF Table, Process, SameOrigin
<1>2. u = [w \in Proc |-> IF w \in waiters THEN UnblockedFrom(told(w), p) ELSE self[w]]
  BY DEF UnblockAll, Table, WaitersOf
<1> HIDE DEF bare
<1>3. self \in Table /\ \A w \in Proc : self[w] = IF w = p THEN bare ELSE t[w]
  BY <1>1 DEF Table
<1>4. \A w \in Proc :
        /\ SameOrigin(t[w], self[w])
        /\ (w = p => self[w].blocks = {}) /\ (w # p => self[w].blocks = t[w].blocks)
        /\ self[w].blockedBy = t[w].blockedBy /\ self[w].state = t[w].state
  BY <1>1, <1>3 DEF SameOrigin
<1> HIDE DEF self
<1> SUFFICES ASSUME NEW w \in Proc
             PROVE  /\ SameOrigin(t[w], u[w])
                    /\ (w = p => u[w].blocks = {}) /\ (w # p => u[w].blocks = t[w].blocks)
                    /\ w \in waiters => u[w].blockedBy = t[w].blockedBy \ {p}
                    /\ w \notin waiters => u[w].blockedBy = t[w].blockedBy
                    /\ w \in waiters => u[w].state = StateOf(t[w].state, u[w].blockedBy)
                    /\ w \notin waiters => u[w].state = t[w].state
  BY DEF u, waiters
<1> HIDE DEF waiters
<1>5. CASE w \in waiters
  <2>1. self[w] \in Process
    BY <1>3 DEF Table
  <2>2. told(w) \in Process /\ SameTies(self[w], told(w)) /\ told(w).state = self[w].state
    BY <2>1, NotifiedFields
  <2>3. u[w] = UnblockedFrom(told(w), p)
    BY <1>2, <1>5
  <2> HIDE DEF told, u
  <2>4. /\ SameOrigin(told(w), u[w]) /\ u[w].blocks = told(w).blocks
        /\ u[w].blockedBy = told(w).blockedBy \ {p}
        /\ u[w].state = StateOf(told(w).state, u[w].blockedBy)
    BY <2>2, <2>3, UnblockedFromFields
  <2>5. /\ SameOrigin(self[w], u[w]) /\ u[w].blocks = self[w].blocks
        /\ u[w].blockedBy = self[w].blockedBy \ {p}
        /\ u[w].state = StateOf(self[w].state, u[w].blockedBy)
    BY <2>2, <2>4 DEF SameOrigin, SameTies
  <2> QED
    BY <1>4, <1>5, <2>5 DEF SameOrigin
<1>6. CASE w \notin waiters
  <2>1. u[w] = self[w]
    BY <1>2, <1>6
  <2> QED
    BY <1>4, <1>6, <2>1
<1> QED
  BY <1>5, <1>6

(* delete_process's three updates of the table.                            *)
LEMMA DeletedFields ==
  ASSUME NEW t \in Table, NEW p \in Proc, NEW rc \in Code
  PROVE  LET u == Deleted(t, p, rc)
             released == {t[p].parent} \cup WaitersOf(t, p)
         IN  \A w \in Proc :
               /\ SameOrigin(t[w], u[w])
               /\ (w = p => u[w].blocks = {}) /\ (w # p => u[w].blocks = t[w].blocks)
               /\ w \in released => u[w].blockedBy = t[w].blockedBy \ {p}
               /\ w \notin released => u[w].blockedBy = t[w].blockedBy
               /\ w = p => u[w].state = "Terminated"
               /\ w # p /\ w \in released => u[w].state = StateOf(t[w].state, u[w].blockedBy)
               /\ w # p /\ w \notin released => u[w].state = t[w].state
<1> DEFINE parent == t[p].parent
           u1 == UnblockParent(t, p)
           u2 == ScheduleRemoval(u1, p)
           u3 == UnblockAll(u2, p, rc)
           waiters == WaitersOf(u2, p)
           released == {t[p].parent} \cup WaitersOf(t, p)
<1>1. u1 \in Table
  BY UnblockParentType
<1>2. u2 \in Table
  BY <1>1, ScheduleRemovalType
<1>3. \A w \in Proc :
        /\ SameOrigin(t[w], u1[w])
        /\ w = p => u1[w].blocks = {e \in t[w].blocks : e.blocked # parent}
        /\ w # p => u1[w].blocks = t[w].blocks
        /\ w = parent => u1[w].blockedBy = t[w].blockedBy \ {p}
        /\ w # parent => u1[w].blockedBy = t[w].blockedBy
        /\ w \in {p, parent} => u1[w].state = StateOf(t[w].state, u1[w].blockedBy)
        /\ w \notin {p, parent} => u1[w].state = t[w].state
  BY UnblockParentFields
<1> HIDE DEF u1
<1>4. \A w \in Proc :
        /\ SameTies(u1[w], u2[w])
        /\ w = p => u2[w].state = "Terminated"
        /\ w # p => u2[w].state = u1[w].state
  BY <1>1 DEF ScheduleRemoval, SameTies, Table, Process
<1>5. \A w \in Proc :
        /\ SameOrigin(u2[w], u3[w])
        /\ (w = p => u3[w].blocks = {}) /\ (w # p => u3[w].blocks = u2[w].blocks)
        /\ w \in waiters => u3[w].blockedBy = u2[w].blockedBy \ {p}
        /\ w \notin waiters => u3[w].blockedBy = u2[w].blockedBy
        /\ w \in waiters => u3[w].state = StateOf(u2[w].state, u3[w].blockedBy)
        /\ w \notin waiters => u3[w].state = u2[w].state
  <2> HIDE DEF u2
  <2> QED
    BY <1>2, UnblockAllFields
<1>6. Deleted(t, p, rc) = u3
  BY DEF Deleted, u1
<1>7. u2[p].blocks = {e \in t[p].blocks : e.blocked # parent}
  BY <1>3, <1>4 DEF SameTies
<1>8. waiters = WaitersOf(t, p) \ {parent}
  BY <1>7 DEF WaitersOf
<1> HIDE DEF u2, u3, waiters
<1> SUFFICES ASSUME NEW w \in Proc
             PROVE  /\ SameOrigin(t[w], u3[w])
                    /\ (w = p => u3[w].blocks = {}) /\ (w # p => u3[w].blocks = t[w].blocks)
                    /\ w \in released => u3[w].blockedBy = t[w].blockedBy \ {p}
                    /\ w \notin released => u3[w].blockedBy = t[w].blockedBy
                    /\ w = p => u3[w].state = "Terminated"
                    /\ w # p /\ w \in released =>
                         u3[w].state = StateOf(t[w].state, u3[w].blockedBy)
                    /\ w # p /\ w \notin released => u3[w].state = t[w].state
  BY <1>6 DEF released
<1>9. w \in released <=> w = parent \/ w \in waiters
  BY <1>8
<1>10. w \in waiters => w # parent
  BY <1>8
<1> HIDE DEF released, parent
<1>11. /\ SameOrigin(t[w], u1[w])
       /\ w = p => u1[w].blocks = {e \in t[w].blocks : e.blocked # parent}
       /\ w # p => u1[w].blocks = t[w].blocks
       /\ w = parent => u1[w].blockedBy = t[w].blockedBy \ {p}
       /\ w # parent => u1[w].blockedBy = t[w].blockedBy
       /\ w \in {p, parent} => u1[w].state = StateOf(t[w].state, u1[w].blockedBy)
       /\ w \notin {p, parent} => u1[w].state = t[w].state
  BY <1>3
<1>12. /\ SameOrigin(u1[w], u2[w])
       /\ u2[w].blocks = u1[w].blocks /\ u2[w].blockedBy = u1[w].blockedBy
       /\ w = p => u2[w].state = "Terminated"
       /\ w # p => u2[w].state = u1[w].state
  BY <1>4 DEF SameTies, SameOrigin
<1>13. /\ SameOrigin(u2[w], u3[w])
       /\ (w = p => u3[w].blocks = {}) /\ (w # p => u3[w].blocks = u2[w].blocks)
       /\ w \in waiters => u3[w].blockedBy = u2[w].blockedBy \ {p}
       /\ w \notin waiters => u3[w].blockedBy = u2[w].blockedBy
       /\ w \in waiters => u3[w].state = StateOf(u2[w].state, u3[w].blockedBy)
       /\ w \notin waiters => u3[w].state = u2[w].state
  BY <1>5
<1>14. SameOrigin(t[w], u3[w])
  BY <1>11, <1>12, <1>13 DEF SameOrigin
<1>15. (w = p => u3[w].blocks = {}) /\ (w # p => u3[w].blocks = t[w].blocks)
  BY <1>11, <1>12, <1>13
<1>16. u3[w].blockedBy = IF w \in released THEN t[w].blockedBy \ {p} ELSE t[w].blockedBy
  BY <1>9, <1>10, <1>11, <1>12, <1>13
<1>17. w = p => u3[w].state = "Terminated"
  BY <1>12, <1>13 DEF StateOf
<1>18. ASSUME w # p
       PROVE  u3[w].state = IF w \in released THEN StateOf(t[w].state, u3[w].blockedBy)
                            ELSE t[w].state
  <2>1. CASE w \in waiters
    BY <1>9, <1>10, <1>11, <1>12, <1>13, <1>18, <2>1
  <2>2. CASE w \notin waiters
    BY <1>9, <1>11, <1>12, <1>13, <1>18, <2>2
  <2> QED
    BY <2>1, <2>2
<1> QED
  BY <1>14, <1>15, <1>16, <1>17, <1>18

(* set_next.                                                               *)
LEMMA SetNextFields ==
  ASSUME NEW s \in Scheduler, NEW t \in Table, NEW n \in Proc
  PROVE  /\ SetNext(s, t, n).scheduler = [current |-> n, next |-> Null]
         /\ SetNext(s, t, n).table \in Table
         /\ Moved(t, SetNext(s, t, n).table, s, n)
BY UpdateCurrentFields, SetNextType DEF SetNext

-----------------------------------------------------------------------------
(* The inductive invariant.                                                *)
Listed == ToSet(processes)

(* Every object is in exactly one list, once.                              *)
ListsInv ==
  /\ OneToOne(processes) /\ OneToOne(terminateList)
  /\ Listed \cap Doomed = {}
  /\ Live = Listed \cup Doomed

(* Only a process of the list is within a call, and none of them has ended.*)
PlacesInv ==
  /\ \A p \in Proc : pc[p] \in {"create", "waitpid"} => p \in Listed
  /\ \A p \in Listed : pc[p] # "exit"

(* Who waits is known to whom it waits for; both are in the list.          *)
WaitsInv ==
  /\ WaitersKnown
  /\ \A p \in Proc \ Listed : table[p].blockedBy = {} /\ table[p].blocks = {}

(* The state is what reevaluate_state would compute.                       *)
StatesInv ==
  /\ \A p \in Listed : table[p].state = "Blocked" <=> table[p].blockedBy # {}
  /\ \A p \in Listed : table[p].state # "Terminated"
  /\ \A p \in Doomed : table[p].state = "Terminated"

(* q lives on the stack of p.                                              *)
Borrows(q, p) == q \in Listed /\ table[q].vforkContext /\ table[q].parent = p

(* Whose stack is borrowed waits for the borrower alone, in its vfork, and *)
(* a process waits for no other reason than this one or its waitpid.       *)
BorrowInv ==
  /\ \A q \in Listed : table[q].stackShared <=> table[q].vforkContext
  /\ \A p \in Proc, q \in Proc : Borrows(q, p) =>
       p \in Listed /\ p # core /\ table[p].blockedBy = {q} /\ pc[p] = "user"
  /\ \A p \in Listed : table[p].blockedBy # {} =>
       pc[p] = "waitpid" \/ \E q \in Proc : Borrows(q, p)

(* The scheduler's current process is the one the processor executes.      *)
CoreInv ==
  /\ scheduler.next = Null
  /\ scheduler.current \in {core, Null}
  /\ scheduler.current \in Listed \cup Doomed \cup {Null}
  /\ mode = "running" =>
       /\ scheduler.current = Null => table[core].state = "Free"
       /\ core \in Listed \/ pc[core] = "exit"
       /\ core \in Listed => scheduler.current = core

InOrder == StatesInv /\ BorrowInv /\ CoreInv

(* A kernel that has failed or returned to main keeps the objects and what *)
(* ties them, no more.                                                     *)
SafeInv ==
  /\ ListsInv /\ PlacesInv /\ WaitsInv
  /\ mode \in {"boot", "running"} => InOrder

(* What a process that executes may rely on.                               *)
LEMMA Executing ==
  ASSUME IInv, SafeInv, NEW p \in Proc, NEW l \in Location, Executes(p, l), l # "exit"
  PROVE  /\ InOrder
         /\ mode = "running" /\ core = p /\ pc[p] = l
         /\ p \in Listed /\ p \notin Doomed
         /\ scheduler.current = p
         /\ table[p].state \notin {"Free", "Terminated"}
         /\ l # "waitpid" => table[p].blockedBy = {}
<1>1. mode = "running" /\ core = p /\ pc[p] = l /\ InOrder
  BY DEF Executes, SafeInv
<1>2. p \in Listed /\ scheduler.current = p
  BY <1>1 DEF InOrder, CoreInv
<1>3. p \notin Doomed /\ p \in Live
  BY <1>2 DEF SafeInv, ListsInv
<1>4. table[p].state \notin {"Free", "Terminated"}
  BY <1>1, <1>2, <1>3 DEF InOrder, StatesInv, Live
<1>5. l # "waitpid" => table[p].blockedBy = {}
  BY <1>1, <1>2 DEF InOrder, BorrowInv
<1> QED
  BY <1>1, <1>2, <1>3, <1>4, <1>5

(* The types an operation starts from.                                     *)
LEMMA Types ==
  ASSUME IInv
  PROVE  /\ table \in Table /\ \A w \in Proc : table[w] \in Process
         /\ processes \in Seq(Proc) /\ terminateList \in Seq(Proc)
         /\ Listed \subseteq Proc /\ Doomed \subseteq Proc
         /\ scheduler \in Scheduler /\ core \in Proc
BY Elements DEF IInv, Others, TableOK, Table, Listed, Doomed

(* An object no operation touched, as far as the invariant sees.           *)
Same(r, s) == SameTies(r, s) /\ s.state = r.state

(* No object comes or goes, none gets another pid or parent.               *)
ObjectsKept ==
  /\ Live' = Live
  /\ \A w \in Proc : table'[w].pid = table[w].pid /\ table'[w].parent = table[w].parent

(* Nobody begins to wait.                                                  *)
NoNewWaits == \A w \in Proc : table'[w].blockedBy \subseteq table[w].blockedBy

(* The context switch destroys the dead and changes nobody's ties.         *)
DeadDestroyed ==
  /\ Listed' = Listed /\ Doomed' = {}
  /\ \A w \in Listed : SameTies(table[w], table'[w])

-----------------------------------------------------------------------------
(* vfork: a new process with its parent's stack, for which the parent      *)
(* waits.                                                                  *)
LEMMA VforkTable ==
  ASSUME IInv, SafeInv, NEW p \in Proc, Vfork(p)
  PROVE  \E child \in FreeSlots :
           /\ processes' = Append(processes, child) /\ core' = child
           /\ scheduler' = [current |-> child, next |-> Null]
           /\ pc' = [pc EXCEPT ![child] = "user"]
           /\ table'[child].pid = NextPid /\ table'[child].parent = p
           /\ table'[child].blockedBy = {}
           /\ table'[child].blocks = {[blocked |-> p, action |-> "vfork"]}
           /\ table'[child].vforkContext /\ table'[child].stackShared
           /\ table'[child].state = "Running"
           /\ SameOrigin(table[p], table'[p])
           /\ table'[p].blocks = table[p].blocks
           /\ table'[p].blockedBy = {child} /\ table'[p].state = "Blocked"
           /\ \A w \in Proc \ {child, p} : Same(table[w], table'[w])
<1>1. /\ scheduler.current = p /\ table[p].state \notin {"Free", "Terminated"}
      /\ table[p].blockedBy = {}
  BY Executing DEF Vfork, Location
<1>2. PICK child \in FreeSlots :
        LET forked == [table EXCEPT ![child] = VforkedProcess(p, NextPid)]
            waits  == WaitForProcess(forked, p, child, "vfork")
            moved  == SetNext(scheduler, waits, child)
        IN  /\ table' = [moved.table EXCEPT ![child].vforkContext = TRUE]
            /\ scheduler' = moved.scheduler
            /\ processes' = Append(processes, child)
            /\ core' = child
            /\ pc' = [pc EXCEPT ![child] = "user"]
  BY DEF Vfork
<1> DEFINE new    == VforkedProcess(p, NextPid)
           forked == [table EXCEPT ![child] = new]
           waits  == WaitForProcess(forked, p, child, "vfork")
           moved  == SetNext(scheduler, waits, child).table
           entry  == [blocked |-> p, action |-> "vfork"]
<1>3. child \in Proc /\ child # p
  BY <1>1 DEF FreeSlots
<1>4. /\ new \in Process /\ new.pid = NextPid /\ new.parent = p
      /\ new.blockedBy = {} /\ new.blocks = {} /\ new.stackShared
  <2>1. NextPid \in 0..MaxPid
    BY NextPidType, MaxPidAssumption DEF Vfork, Pid
  <2>2. new \in Process
    BY <2>1, VforkedProcessType
  <2> QED
    BY <2>2 DEF VforkedProcess, NewProcess, NoProcess
<1> HIDE DEF new
<1>5. forked \in Table /\ forked[child] = new /\ \A w \in Proc \ {child} : forked[w] = table[w]
  BY <1>3, <1>4, Types DEF Table
<1> HIDE DEF forked
<1>6. waits \in Table
  BY <1>3, <1>5, WaitForProcessType DEF UnblockAction
<1>7. \A w \in Proc :
        /\ SameOrigin(forked[w], waits[w])
        /\ w = child => waits[w].blocks = forked[w].blocks \cup {entry}
        /\ w # child => waits[w].blocks = forked[w].blocks
        /\ w = p => waits[w].blockedBy = forked[w].blockedBy \cup {child}
        /\ w # p => waits[w].blockedBy = forked[w].blockedBy
        /\ w = p => waits[w].state = StateOf(forked[w].state, waits[w].blockedBy)
        /\ w # p => waits[w].state = forked[w].state
  BY <1>3, <1>5, WaitForProcessFields DEF UnblockAction
<1> HIDE DEF waits
<1>8. /\ moved \in Table /\ Moved(waits, moved, scheduler, child)
      /\ scheduler' = [current |-> child, next |-> Null]
  BY <1>2, <1>3, <1>6, Types, SetNextFields DEF new, forked, waits
<1>9. table' = [moved EXCEPT ![child].vforkContext = TRUE]
  BY <1>2 DEF new, forked, waits
<1> HIDE DEF moved, entry
<1>10. /\ \A w \in Proc \ {child} : table'[w] = moved[w]
       /\ table'[child] = [moved[child] EXCEPT !.vforkContext = TRUE]
  BY <1>3, <1>8, <1>9 DEF Table
<1>11. /\ table'[child].pid = NextPid /\ table'[child].parent = p
       /\ table'[child].blockedBy = {} /\ table'[child].blocks = {entry}
       /\ table'[child].vforkContext /\ table'[child].stackShared
       /\ table'[child].state = "Running"
  <2>1. /\ SameOrigin(new, waits[child]) /\ SameTies(waits[child], moved[child])
        /\ waits[child].blocks = {entry} /\ waits[child].blockedBy = {}
        /\ moved[child].state = "Running" /\ moved[child] \in Process
    BY <1>3, <1>4, <1>5, <1>7, <1>8 DEF Moved, Table
  <2> QED
    BY <1>4, <1>10, <2>1 DEF SameOrigin, SameTies, Process
<1>12. /\ SameOrigin(table[p], table'[p]) /\ table'[p].blocks = table[p].blocks
       /\ table'[p].blockedBy = {child} /\ table'[p].state = "Blocked"
  <2>1. /\ SameOrigin(table[p], waits[p]) /\ waits[p].blocks = table[p].blocks
        /\ waits[p].blockedBy = {child} /\ waits[p].state = "Blocked"
    BY <1>1, <1>3, <1>5, <1>7 DEF StateOf
  <2>2. SameTies(waits[p], table'[p]) /\ table'[p].state = "Blocked"
    BY <1>1, <1>3, <1>8, <1>10, <2>1 DEF Moved, StateOf
  <2> QED
    BY <2>1, <2>2 DEF SameOrigin, SameTies
<1>13. ASSUME NEW w \in Proc \ {child, p} PROVE Same(table[w], table'[w])
  <2>1. /\ SameOrigin(table[w], waits[w]) /\ waits[w].blocks = table[w].blocks
        /\ waits[w].blockedBy = table[w].blockedBy /\ waits[w].state = table[w].state
    BY <1>5, <1>7
  <2>2. SameTies(waits[w], table'[w]) /\ table'[w].state = waits[w].state
    BY <1>1, <1>8, <1>10 DEF Moved
  <2> QED
    BY <2>1, <2>2 DEF Same, SameOrigin, SameTies
<1> QED
  BY <1>2, <1>8, <1>11, <1>12, <1>13 DEF entry

LEMMA VforkSafe ==
  ASSUME IInv, SafeInv, NEW p \in Proc, Vfork(p)
  PROVE  SafeInv'
<1>1. /\ InOrder /\ mode = "running" /\ core = p /\ pc[p] = "user"
      /\ p \in Listed /\ p \notin Doomed /\ table[p].blockedBy = {}
      /\ terminateList' = terminateList /\ mode' = mode
  BY Executing DEF Vfork, Location
<1>2. PICK child \in FreeSlots :
        /\ processes' = Append(processes, child) /\ core' = child
        /\ scheduler' = [current |-> child, next |-> Null]
        /\ pc' = [pc EXCEPT ![child] = "user"]
        /\ table'[child].parent = p
        /\ table'[child].blockedBy = {}
        /\ table'[child].blocks = {[blocked |-> p, action |-> "vfork"]}
        /\ table'[child].vforkContext /\ table'[child].stackShared
        /\ table'[child].state = "Running"
        /\ SameOrigin(table[p], table'[p])
        /\ table'[p].blocks = table[p].blocks
        /\ table'[p].blockedBy = {child} /\ table'[p].state = "Blocked"
        /\ \A w \in Proc \ {child, p} : Same(table[w], table'[w])
  BY VforkTable
<1>3. /\ child \in Proc /\ child \notin Live /\ child \notin Listed /\ child \notin Doomed
      /\ child # p
  BY <1>1 DEF FreeSlots, Live, SafeInv, ListsInv
<1>4. Listed' = Listed \cup {child} /\ OneToOne(processes') /\ Doomed' = Doomed
  BY <1>1, <1>2, <1>3, Types, AppendElements DEF Listed, Doomed, SafeInv, ListsInv
<1>5. \A w \in Proc : w # child => pc'[w] = pc[w]
  BY <1>2
<1>6. pc'[child] = "user"
  BY <1>2, <1>3 DEF IInv, Others
<1> DEFINE entry == [blocked |-> p, action |-> "vfork"]
<1>7. entry.blocked = p
  OBVIOUS
<1> HIDE DEF entry
<1>8. ListsInv'
  <2>1. Live' = Live \cup {child}
    BY <1>1, <1>2, <1>3 DEF Live, Same, SafeInv, ListsInv
  <2> QED
    BY <1>1, <1>3, <1>4, <2>1 DEF SafeInv, ListsInv
<1>9. PlacesInv'
  <2>1. \A w \in Proc : pc'[w] \in {"create", "waitpid"} => w \in Listed'
    BY <1>3, <1>4, <1>5, <1>6 DEF SafeInv, PlacesInv
  <2>2. \A w \in Listed' : pc'[w] # "exit"
    <3>1. \A w \in Listed' : w \in Proc /\ (w # child => w \in Listed)
      BY <1>3, <1>4, Types
    <3> QED
      BY <1>5, <1>6, <3>1 DEF SafeInv, PlacesInv
  <2> QED
    BY <2>1, <2>2 DEF PlacesInv
<1>10. WaitsInv'
  <2>1. \A q \in Proc : /\ child \notin table[q].blockedBy
                        /\ ~\E e \in table[q].blocks : e.blocked = child
    BY <1>3 DEF SafeInv, WaitsInv, WaitersKnown
  <2>2. ASSUME NEW w \in Proc, NEW q \in Proc
        PROVE  q \in table'[w].blockedBy <=> \E e \in table'[q].blocks : e.blocked = w
    <3>1. CASE q = child
      <4>1. (\E e \in table'[q].blocks : e.blocked = w) <=> w = p
        BY <1>2, <1>7, <3>1 DEF entry
      <4>2. q \in table'[w].blockedBy <=> w = p
        BY <1>2, <2>1, <3>1 DEF Same, SameTies
      <4> QED
        BY <4>1, <4>2
    <3>2. CASE q # child
      <4>1. table'[q].blocks = table[q].blocks
        BY <1>2, <3>2 DEF Same, SameTies
      <4>2. CASE w \in {child, p}
        BY <1>1, <1>2, <2>1, <3>2, <4>1, <4>2 DEF SafeInv, WaitsInv, WaitersKnown
      <4>3. CASE w \notin {child, p}
        <5>1. table'[w].blockedBy = table[w].blockedBy
          BY <1>2, <4>3 DEF Same, SameTies
        <5> QED
          BY <4>1, <5>1 DEF SafeInv, WaitsInv, WaitersKnown
      <4> QED
        BY <4>2, <4>3
    <3> QED
      BY <3>1, <3>2
  <2>3. \A w \in Proc \ Listed' : table'[w].blockedBy = {} /\ table'[w].blocks = {}
    BY <1>1, <1>2, <1>4 DEF Same, SameTies, SafeInv, WaitsInv
  <2> QED
    BY <2>2, <2>3 DEF WaitsInv, WaitersKnown
<1>11. StatesInv'
  <2>1. \A w \in Listed : w # p => w # child /\ w \in Proc
    BY <1>3, Types
  <2>2. \A w \in Doomed : w # p /\ w # child /\ w \in Proc
    BY <1>1, <1>3, Types
  <2>3. \A w \in Proc \ {child, p} :
          table'[w].state = table[w].state /\ table'[w].blockedBy = table[w].blockedBy
    BY <1>2 DEF Same, SameTies
  <2> QED
    BY <1>1, <1>2, <1>4, <2>1, <2>2, <2>3 DEF InOrder, StatesInv
<1>12. BorrowInv'
  <2>1. \A w \in Proc \ {child} : /\ table'[w].parent = table[w].parent
                                  /\ table'[w].vforkContext = table[w].vforkContext
                                  /\ table'[w].stackShared = table[w].stackShared
    BY <1>2 DEF Same, SameTies, SameOrigin
  <2>2. ASSUME NEW w \in Proc, NEW q \in Proc
        PROVE  Borrows(q, w)' <=> Borrows(q, w) \/ (q = child /\ w = p)
    BY <1>2, <1>3, <1>4, <2>1 DEF Borrows
  <2>3. ASSUME NEW w \in Proc, NEW q \in Proc, Borrows(q, w)
        PROVE  w \in Listed /\ w # p /\ w # child /\ table'[w].blockedBy = {q} /\ pc'[w] = "user"
    <3>1. w \in Listed /\ w # core /\ table[w].blockedBy = {q} /\ pc[w] = "user"
      BY <1>1, <2>3 DEF InOrder, BorrowInv
    <3>2. w # p /\ w # child
      BY <1>1, <1>3, <3>1
    <3> QED
      BY <1>2, <1>5, <3>1, <3>2 DEF Same, SameTies
  <2>4. \A q \in Listed' : table'[q].stackShared <=> table'[q].vforkContext
    BY <1>1, <1>2, <1>3, <1>4, <2>1, Types DEF InOrder, BorrowInv
  <2>5. \A w \in Proc, q \in Proc : Borrows(q, w)' =>
          w \in Listed' /\ w # core' /\ table'[w].blockedBy = {q} /\ pc'[w] = "user"
    BY <1>1, <1>2, <1>3, <1>4, <1>5, <2>2, <2>3
  <2>6. ASSUME NEW w \in Listed', table'[w].blockedBy # {}
        PROVE  pc'[w] = "waitpid" \/ \E q \in Proc : Borrows(q, w)'
    <3>1. CASE w = p
      BY <1>3, <2>2, <3>1
    <3>2. CASE w # p
      <4>1. w \in Listed /\ w # child /\ w \in Proc
        BY <1>2, <1>4, <2>6, <3>2, Types
      <4>2. table[w].blockedBy # {}
        BY <1>2, <2>6, <3>2, <4>1 DEF Same, SameTies
      <4> QED
        BY <1>1, <1>5, <2>2, <4>1, <4>2 DEF InOrder, BorrowInv
    <3> QED
      BY <3>1, <3>2
  <2> QED
    BY <2>4, <2>5, <2>6 DEF BorrowInv
<1>13. CoreInv'
  BY <1>2, <1>3, <1>4, NullAssumption DEF CoreInv
<1> QED
  BY <1>8, <1>9, <1>10, <1>11, <1>12, <1>13 DEF SafeInv, InOrder

-----------------------------------------------------------------------------
(* exec: p leaves its parent's stack, and the parent goes on.              *)
LEMMA ExecTable ==
  ASSUME IInv, SafeInv, NEW p \in Proc, Exec(p)
  PROVE  \E parent \in Listed :
           /\ Borrows(p, parent) /\ parent # p
           /\ core' = parent /\ scheduler' = [current |-> parent, next |-> Null]
           /\ table'[p].pid = table[p].pid /\ table'[p].parent = parent
           /\ ~table'[p].vforkContext /\ ~table'[p].stackShared
           /\ table'[p].blocks = {e \in table[p].blocks : e.blocked # parent}
           /\ table'[p].blockedBy = {} /\ table'[p].state = "Ready"
           /\ SameOrigin(table[parent], table'[parent])
           /\ table'[parent].blocks = table[parent].blocks
           /\ table'[parent].blockedBy = {} /\ table'[parent].state = "Ready"
           /\ \A w \in Proc \ {p, parent} : Same(table[w], table'[w])
<1> DEFINE parent == table[p].parent
           bare   == [table[p] EXCEPT !.stackShared = FALSE, !.initialized = FALSE]
           loaded == [table EXCEPT ![p] = bare]
           moved  == SetNext(scheduler, loaded, parent).table
           own    == [moved[p] EXCEPT !.vforkContext = FALSE]
           left   == [moved EXCEPT ![p] = own]
<1>1. /\ InOrder /\ core = p /\ scheduler.current = p /\ p \in Listed
      /\ table[p].state \notin {"Free", "Terminated"} /\ table[p].blockedBy = {}
      /\ table[p].vforkContext
  BY Executing DEF Exec, Location
<1>2. /\ Borrows(p, parent) /\ parent \in Proc
      /\ parent \in Listed /\ parent # p
      /\ table[parent].blockedBy = {p} /\ table[parent].state = "Blocked"
  <2>1. parent \in Proc /\ Borrows(p, parent)
    BY <1>1 DEF IInv, TableOK, Borrows
  <2>2. parent \in Listed /\ parent # core /\ table[parent].blockedBy = {p}
    BY <1>1, <2>1 DEF InOrder, BorrowInv
  <2> QED
    BY <1>1, <2>1, <2>2 DEF InOrder, StatesInv
<1>3. /\ bare \in Process /\ bare.pid = table[p].pid /\ bare.parent = parent
      /\ bare.vforkContext = table[p].vforkContext /\ bare.stackShared = FALSE
      /\ bare.blocks = table[p].blocks /\ bare.blockedBy = table[p].blockedBy
      /\ bare.state = table[p].state
  <2>1. table[p] \in Process
    BY Types
  <2> QED
    BY <2>1 DEF Process
<1>4. [table EXCEPT ![p].stackShared = FALSE, ![p].initialized = FALSE] = loaded
  BY Types DEF Table
<1>5. /\ table' = UnblockParent([moved EXCEPT ![p].vforkContext = FALSE], p)
      /\ scheduler' = SetNext(scheduler, loaded, parent).scheduler
      /\ core' = parent
  BY <1>4 DEF Exec
<1> HIDE DEF bare, parent
<1>6. loaded \in Table /\ \A w \in Proc : (w = p => loaded[w] = bare) /\ (w # p => loaded[w] = table[w])
  BY <1>3, Types DEF Table
<1> HIDE DEF loaded
<1>7. /\ moved \in Table /\ Moved(loaded, moved, scheduler, parent)
      /\ scheduler' = [current |-> parent, next |-> Null]
  BY <1>2, <1>5, <1>6, Types, SetNextFields
<1> HIDE DEF moved
<1>8. [moved EXCEPT ![p].vforkContext = FALSE] = left
  BY <1>7 DEF Table
<1>9. /\ own \in Process /\ own.pid = moved[p].pid /\ own.parent = moved[p].parent
      /\ own.vforkContext = FALSE /\ own.stackShared = moved[p].stackShared
      /\ own.blocks = moved[p].blocks /\ own.blockedBy = moved[p].blockedBy
      /\ own.state = moved[p].state
  <2>1. moved[p] \in Process
    BY <1>7 DEF Table
  <2> QED
    BY <2>1 DEF Process
<1> HIDE DEF own
<1>10. left \in Table /\ \A w \in Proc : (w = p => left[w] = own) /\ (w # p => left[w] = moved[w])
  BY <1>7, <1>9 DEF Table
<1>11. table' = UnblockParent(left, p)
  BY <1>5, <1>8
<1> HIDE DEF left
<1>12. /\ left[p].pid = table[p].pid /\ left[p].parent = parent
       /\ ~left[p].vforkContext /\ ~left[p].stackShared
       /\ left[p].blocks = table[p].blocks /\ left[p].blockedBy = {}
       /\ left[p].state = "Ready"
  BY <1>1, <1>2, <1>3, <1>6, <1>7, <1>9, <1>10 DEF Moved, SameTies, StateOf
<1>13. /\ SameTies(table[parent], left[parent]) /\ left[parent].state = "Running"
  BY <1>2, <1>6, <1>7, <1>10 DEF Moved
<1>14. \A w \in Proc \ {p, parent} : Same(table[w], left[w])
  BY <1>1, <1>6, <1>7, <1>10 DEF Moved, Same
<1>15. \A w \in Proc :
         /\ SameOrigin(left[w], table'[w])
         /\ w = p => table'[w].blocks = {e \in left[w].blocks : e.blocked # parent}
         /\ w # p => table'[w].blocks = left[w].blocks
         /\ w = parent => table'[w].blockedBy = left[w].blockedBy \ {p}
         /\ w # parent => table'[w].blockedBy = left[w].blockedBy
         /\ w \in {p, parent} => table'[w].state = StateOf(left[w].state, table'[w].blockedBy)
         /\ w \notin {p, parent} => table'[w].state = left[w].state
  BY <1>10, <1>11, <1>12, UnblockParentFields
<1>16. /\ table'[p].pid = table[p].pid /\ table'[p].parent = parent
       /\ ~table'[p].vforkContext /\ ~table'[p].stackShared
       /\ table'[p].blocks = {e \in table[p].blocks : e.blocked # parent}
       /\ table'[p].blockedBy = {} /\ table'[p].state = "Ready"
  BY <1>2, <1>12, <1>15 DEF SameOrigin, StateOf
<1>17. /\ SameOrigin(table[parent], table'[parent])
       /\ table'[parent].blocks = table[parent].blocks
       /\ table'[parent].blockedBy = {} /\ table'[parent].state = "Ready"
  BY <1>2, <1>13, <1>15 DEF SameOrigin, SameTies, StateOf
<1>18. \A w \in Proc \ {p, parent} : Same(table[w], table'[w])
  BY <1>14, <1>15 DEF SameOrigin, SameTies, Same
<1> QED
  BY <1>2, <1>5, <1>7, <1>16, <1>17, <1>18

LEMMA ExecSafe ==
  ASSUME IInv, SafeInv, NEW p \in Proc, Exec(p)
  PROVE  SafeInv' /\ ObjectsKept /\ NoNewWaits /\ UNCHANGED pc
<1>1. /\ InOrder /\ mode = "running" /\ core = p /\ pc[p] = "user"
      /\ p \in Listed /\ p \notin Doomed /\ table[p].blockedBy = {}
      /\ Listed' = Listed /\ Doomed' = Doomed
      /\ pc' = [pc EXCEPT ![table[p].parent] = "user"]
      /\ UNCHANGED <<processes, terminateList, mode>>
  BY Executing DEF Exec, Location, Listed, Doomed
<1>2. PICK parent \in Listed :
        /\ Borrows(p, parent) /\ parent # p
        /\ core' = parent /\ scheduler' = [current |-> parent, next |-> Null]
        /\ table'[p].pid = table[p].pid /\ table'[p].parent = parent
        /\ ~table'[p].vforkContext /\ ~table'[p].stackShared
        /\ table'[p].blocks = {e \in table[p].blocks : e.blocked # parent}
        /\ table'[p].blockedBy = {} /\ table'[p].state = "Ready"
        /\ SameOrigin(table[parent], table'[parent])
        /\ table'[parent].blocks = table[parent].blocks
        /\ table'[parent].blockedBy = {} /\ table'[parent].state = "Ready"
        /\ \A w \in Proc \ {p, parent} : Same(table[w], table'[w])
  BY ExecTable
<1>3. /\ parent \in Proc /\ parent \notin Doomed /\ table[p].parent = parent
      /\ table[parent].blockedBy = {p} /\ pc[parent] = "user"
  BY <1>1, <1>2, Types DEF Borrows, InOrder, BorrowInv, SafeInv, ListsInv
<1>12. pc' = pc
  BY <1>1, <1>3 DEF IInv, Others
<1>4. /\ table[p].state # "Free" /\ table[parent].state # "Free"
  BY <1>1, <1>2, <1>3 DEF SafeInv, ListsInv, Live
<1>5. ListsInv'
  <2>1. Live' = Live
    BY <1>2, <1>3, <1>4 DEF Live, Same
  <2> QED
    BY <1>1, <2>1 DEF SafeInv, ListsInv
<1>6. PlacesInv'
  BY <1>1, <1>12 DEF SafeInv, PlacesInv
<1>7. WaitsInv'
  <2>1. ASSUME NEW w \in Proc, NEW q \in Proc
        PROVE  q \in table'[w].blockedBy <=> \E e \in table'[q].blocks : e.blocked = w
    <3>1. q \in table[w].blockedBy <=> \E e \in table[q].blocks : e.blocked = w
      BY DEF SafeInv, WaitsInv, WaitersKnown
    <3>2. q \in table'[w].blockedBy <=> q \in table[w].blockedBy /\ ~(w = parent /\ q = p)
      BY <1>1, <1>2, <1>3 DEF Same, SameTies
    <3>3. (\E e \in table'[q].blocks : e.blocked = w) <=>
            (\E e \in table[q].blocks : e.blocked = w) /\ ~(w = parent /\ q = p)
      <4>1. CASE q = p
        BY <1>2, <4>1
      <4>2. CASE q # p
        BY <1>2, <4>2 DEF Same, SameTies
      <4> QED
        BY <4>1, <4>2
    <3> QED
      BY <3>1, <3>2, <3>3
  <2>2. \A w \in Proc \ Listed' : table'[w].blockedBy = {} /\ table'[w].blocks = {}
    BY <1>1, <1>2 DEF Same, SameTies, SafeInv, WaitsInv
  <2> QED
    BY <2>1, <2>2 DEF WaitsInv, WaitersKnown
<1>8. StatesInv'
  <2>1. \A w \in Proc \ {p, parent} :
          table'[w].state = table[w].state /\ table'[w].blockedBy = table[w].blockedBy
    BY <1>2 DEF Same, SameTies
  <2>2. \A w \in Listed \cup Doomed : w \in Proc
    BY Types
  <2> QED
    BY <1>1, <1>2, <1>3, <2>1, <2>2 DEF InOrder, StatesInv
<1>9. BorrowInv'
  <2>1. \A w \in Proc : table'[w].parent = table[w].parent
    BY <1>2 DEF Same, SameTies, SameOrigin, Borrows
  <2>2. \A w \in Proc \ {p} : /\ table'[w].vforkContext = table[w].vforkContext
                              /\ table'[w].stackShared = table[w].stackShared
    BY <1>2 DEF Same, SameTies, SameOrigin
  <2>3. ASSUME NEW w \in Proc, NEW q \in Proc
        PROVE  Borrows(q, w)' <=> Borrows(q, w) /\ q # p
    BY <1>1, <1>2, <2>1, <2>2 DEF Borrows
  <2>4. ASSUME NEW w \in Proc, NEW q \in Proc, Borrows(q, w), q # p
        PROVE  w \in Listed /\ w # p /\ w # parent /\ table'[w].blockedBy = {q} /\ pc'[w] = "user"
    <3>1. w \in Listed /\ w # core /\ table[w].blockedBy = {q} /\ pc[w] = "user"
      BY <1>1, <2>4 DEF InOrder, BorrowInv
    <3>2. w # p /\ w # parent
      BY <1>1, <1>3, <2>4, <3>1
    <3> QED
      BY <1>2, <1>12, <3>1, <3>2 DEF Same, SameTies
  <2>5. \A q \in Listed' : table'[q].stackShared <=> table'[q].vforkContext
    BY <1>1, <1>2, <2>2, Types DEF InOrder, BorrowInv
  <2>6. \A w \in Proc, q \in Proc : Borrows(q, w)' =>
          w \in Listed' /\ w # core' /\ table'[w].blockedBy = {q} /\ pc'[w] = "user"
    BY <1>1, <1>2, <2>3, <2>4
  <2>7. ASSUME NEW w \in Listed', table'[w].blockedBy # {}
        PROVE  pc'[w] = "waitpid" \/ \E q \in Proc : Borrows(q, w)'
    <3>1. w \in Listed /\ w \in Proc /\ w # p /\ w # parent
      BY <1>1, <1>2, <2>7, Types
    <3>2. table[w].blockedBy # {}
      BY <1>2, <2>7, <3>1 DEF Same, SameTies
    <3>3. CASE pc[w] = "waitpid"
      BY <1>12, <3>3
    <3>4. ASSUME NEW q \in Proc, Borrows(q, w) PROVE q # p
      BY <1>2, <3>1, <3>4 DEF Borrows
    <3> QED
      BY <1>1, <2>3, <3>1, <3>2, <3>3, <3>4 DEF InOrder, BorrowInv
  <2> QED
    BY <2>5, <2>6, <2>7 DEF BorrowInv
<1>10. CoreInv'
  BY <1>1, <1>2, <1>3, NullAssumption DEF CoreInv
<1>11. ObjectsKept /\ NoNewWaits
  BY <1>1, <1>2, <1>5 DEF SafeInv, ListsInv, ObjectsKept, NoNewWaits, Borrows, Same, SameTies, SameOrigin
<1> QED
  BY <1>5, <1>6, <1>7, <1>8, <1>9, <1>10, <1>11, <1>12 DEF SafeInv, InOrder

-----------------------------------------------------------------------------
(* While nobody calls exec again, exec is called by vfork children only,   *)
(* and the parent of one of these exists.                                  *)
LEMMA ExecsOnce ==
  ASSUME "reExec" \notin Habits, IInv, SafeInv, NEW p \in Proc
  PROVE  ~ReExec(p) /\ ~ExecFaults(p)
<1>1. ~ReExec(p)
  BY DEF ReExec
<1>2. ASSUME ExecFaults(p) PROVE FALSE
  <2> DEFINE parent == table[p].parent
  <2>1. /\ Executes(p, "user") /\ table[p].vforkContext
        /\ parent = Null \/ Dangling(table, parent)
    BY <1>2 DEF ExecFaults
  <2>2. InOrder /\ p \in Listed
    BY <2>1, Executing DEF Location
  <2>3. parent \in Proc /\ Borrows(p, parent)
    BY <2>1, <2>2 DEF Borrows, IInv, TableOK
  <2>4. parent \in Listed
    BY <2>2, <2>3 DEF InOrder, BorrowInv
  <2>5. parent # Null /\ table[parent].state # "Free"
    BY <2>3, <2>4, NullAssumption DEF SafeInv, ListsInv, Live
  <2> QED
    BY <2>1, <2>5 DEF Dangling
<1> QED
  BY <1>1, <1>2

LEMMA EndFaultsSafe ==
  ASSUME IInv, SafeInv, NEW p \in Proc, EndFaults(p)
  PROVE  SafeInv' /\ ObjectsKept /\ NoNewWaits
<1>1. /\ UNCHANGED <<table, processes, terminateList, pc>>
      /\ mode' \notin {"boot", "running"}
  BY DEF EndFaults, EndFault
<1> QED
  BY <1>1 DEF ObjectsKept, NoNewWaits, SafeInv, ListsInv, PlacesInv, WaitsInv, WaitersKnown, Listed, Doomed, Live

-----------------------------------------------------------------------------
(* delete_process: nobody waits for p any more.                            *)
LEMMA DeleteTable ==
  ASSUME IInv, SafeInv, NEW p \in Proc, MayEnd(p), EndFault(p) = "none",
         NEW t \in Table, \A w \in Proc : Same(table[w], t[w]),
         NEW rc \in Code, Delete(t, p, rc)
  PROVE  /\ p \in Listed
         /\ Listed' = Listed \ {p} /\ Doomed' = Doomed \cup {p}
         /\ OneToOne(processes') /\ OneToOne(terminateList')
         /\ SameOrigin(table[p], table'[p])
         /\ table'[p].blocks = {} /\ table'[p].blockedBy = {}
         /\ table'[p].state = "Terminated"
         /\ \A w \in Proc \ {p} :
              /\ SameOrigin(table[w], table'[w]) /\ table'[w].blocks = table[w].blocks
              /\ table'[w].blockedBy = table[w].blockedBy \ {p}
         /\ \A w \in Listed \ {p} :
              /\ table'[w].state = "Blocked" <=> table'[w].blockedBy # {}
              /\ table'[w].state \notin {"Free", "Terminated"}
         /\ \A w \in Proc \ Listed : table'[w].state = table[w].state
         /\ \/ /\ Borrows(p, table[p].parent) /\ table[p].parent \in Listed \ {p}
               /\ core' = table[p].parent
               /\ scheduler' = [current |-> table[p].parent, next |-> Null]
               /\ UNCHANGED pc
            \/ /\ ~table[p].vforkContext
               /\ pc' = [pc EXCEPT ![p] = "exit"]
               /\ UNCHANGED <<scheduler, core>>
<1> DEFINE parent  == table[p].parent
           deleted == Deleted(t, p, rc)
           waiters == WaitersOf(t, p)
           moved   == SetNext(scheduler, deleted, parent).table
<1>1. /\ InOrder /\ p \in Listed /\ p \notin Doomed /\ core = p /\ scheduler.current = p
      /\ table[p].blockedBy = {}
  BY Executing DEF MayEnd, Location
<1>2. /\ t[p].parent = parent /\ t[p].vforkContext = table[p].vforkContext
      /\ t[p].blocks = table[p].blocks
  BY DEF Same, SameTies
<1>3. parent # Null => table[parent].state # "Free"
  BY DEF EndFault, Dangling
<1>4. /\ Listed' = Listed \ {p} /\ OneToOne(processes')
      /\ Doomed' = Doomed \cup {p} /\ OneToOne(terminateList')
  <2>1. /\ processes' = RemoveAt(processes, Position(processes, p))
        /\ terminateList' = Append(terminateList, p)
    BY DEF Delete
  <2> QED
    BY <1>1, <2>1, Types, RemovedElements, AppendElements
       DEF SafeInv, ListsInv, Listed, Doomed
<1>5. \A w \in Proc :
        /\ w \in waiters <=> p \in table[w].blockedBy
        /\ w \in waiters => w \in Listed \ {p}
  <2>1. \A w \in Proc : w \in waiters <=> \E e \in table[p].blocks : e.blocked = w
    BY <1>2 DEF WaitersOf
  <2> QED
    BY <1>1, <2>1 DEF SafeInv, WaitsInv, WaitersKnown
<1>6. deleted \in Table
  <2>1. UnblockParent(t, p) \in Table
    BY UnblockParentType
  <2>2. ScheduleRemoval(UnblockParent(t, p), p) \in Table
    BY <2>1, ScheduleRemovalType
  <2> QED
    BY <2>2, UnblockAllType DEF Deleted
<1>7. \A w \in Proc :
        /\ SameOrigin(t[w], deleted[w])
        /\ (w = p => deleted[w].blocks = {}) /\ (w # p => deleted[w].blocks = t[w].blocks)
        /\ w \in {parent} \cup waiters => deleted[w].blockedBy = t[w].blockedBy \ {p}
        /\ w \notin {parent} \cup waiters => deleted[w].blockedBy = t[w].blockedBy
        /\ w = p => deleted[w].state = "Terminated"
        /\ w # p /\ w \in {parent} \cup waiters =>
             deleted[w].state = StateOf(t[w].state, deleted[w].blockedBy)
        /\ w # p /\ w \notin {parent} \cup waiters => deleted[w].state = t[w].state
  BY <1>2, DeletedFields
<1>8. /\ table[p].vforkContext => /\ table' = moved /\ core' = parent
                                  /\ scheduler' = SetNext(scheduler, deleted, parent).scheduler
                                  /\ pc' = [pc EXCEPT ![parent] = "user"]
      /\ ~table[p].vforkContext => /\ table' = deleted /\ pc' = [pc EXCEPT ![p] = "exit"]
                                   /\ UNCHANGED <<scheduler, core>>
  BY <1>2 DEF Delete
<1> HIDE DEF deleted, waiters
<1>9. /\ SameOrigin(table[p], deleted[p]) /\ deleted[p].blocks = {}
      /\ deleted[p].blockedBy = {} /\ deleted[p].state = "Terminated"
  BY <1>1, <1>7 DEF Same, SameTies, SameOrigin
<1>10. ASSUME NEW w \in Proc \ {p}
       PROVE  /\ SameOrigin(table[w], deleted[w]) /\ deleted[w].blocks = table[w].blocks
              /\ deleted[w].blockedBy = table[w].blockedBy \ {p}
  <2>1. Same(table[w], t[w]) /\ (w \in waiters <=> p \in table[w].blockedBy)
    BY <1>5
  <2> QED
    BY <1>7, <2>1 DEF Same, SameTies, SameOrigin
<1>11. ASSUME NEW w \in Listed \ {p}
       PROVE  /\ deleted[w].state = "Blocked" <=> deleted[w].blockedBy # {}
              /\ deleted[w].state \notin {"Free", "Terminated"}
  <2>1. /\ w \in Proc /\ table[w].state \notin {"Free", "Terminated"}
        /\ table[w].state = "Blocked" <=> table[w].blockedBy # {}
    BY <1>1, Types DEF InOrder, StatesInv, SafeInv, ListsInv, Live
  <2>2. t[w].state = table[w].state /\ t[w].blockedBy = table[w].blockedBy
    BY <2>1 DEF Same, SameTies
  <2> QED
    BY <1>7, <2>1, <2>2 DEF StateOf
<1>12. ASSUME NEW w \in Proc \ Listed PROVE deleted[w].state = table[w].state
  <2>1. t[w].state = table[w].state /\ t[w].blockedBy = {} /\ w # p /\ w \notin waiters
    BY <1>1, <1>5 DEF Same, SameTies, SafeInv, WaitsInv
  <2>2. CASE w = parent
    <3>1. w \in Doomed
      BY <1>3, <2>2, NullAssumption DEF SafeInv, ListsInv, Live
    <3> QED
      BY <1>1, <1>7, <2>1, <2>2, <3>1 DEF InOrder, StatesInv, StateOf
  <2>3. CASE w # parent
    BY <1>7, <2>1, <2>3
  <2> QED
    BY <2>2, <2>3
<1>13. CASE ~table[p].vforkContext
  BY <1>1, <1>4, <1>8, <1>9, <1>10, <1>11, <1>12, <1>13
<1>14. CASE table[p].vforkContext
  <2>1. parent \in Proc /\ Borrows(p, parent)
    BY <1>1, <1>14 DEF IInv, TableOK, Borrows
  <2>2. /\ parent \in Listed /\ parent # p /\ table[parent].blockedBy = {p}
        /\ pc[parent] = "user"
    BY <1>1, <2>1 DEF InOrder, BorrowInv
  <2>8. UNCHANGED pc
    BY <1>8, <1>14, <2>1, <2>2 DEF IInv, Others
  <2>3. /\ scheduler' = [current |-> parent, next |-> Null]
        /\ Moved(deleted, table', scheduler, parent)
    <3>1. /\ SetNext(scheduler, deleted, parent).scheduler = [current |-> parent, next |-> Null]
          /\ Moved(deleted, moved, scheduler, parent)
      <4>1. scheduler \in Scheduler
        BY Types
      <4> QED
        BY <1>6, <2>1, <4>1, SetNextFields
    <3> QED
      BY <1>8, <1>14, <3>1
  <2> HIDE DEF parent
  <2>4. /\ SameOrigin(table[p], table'[p]) /\ table'[p].blocks = {}
        /\ table'[p].blockedBy = {} /\ table'[p].state = "Terminated"
    BY <1>1, <1>9, <2>2, <2>3 DEF Moved, SameTies, SameOrigin, StateOf
  <2>5. ASSUME NEW w \in Proc \ {p}
        PROVE  /\ SameOrigin(table[w], table'[w]) /\ table'[w].blocks = table[w].blocks
               /\ table'[w].blockedBy = table[w].blockedBy \ {p}
    BY <1>10, <2>3 DEF Moved, SameTies, SameOrigin
  <2>6. ASSUME NEW w \in Listed \ {p}
        PROVE  /\ table'[w].state = "Blocked" <=> table'[w].blockedBy # {}
               /\ table'[w].state \notin {"Free", "Terminated"}
    <3>1. w \in Proc /\ table'[w].blockedBy = deleted[w].blockedBy
      BY <2>3, Types DEF Moved, SameTies
    <3>2. CASE w = parent
      <4>1. table'[w].blockedBy = {} /\ table'[w].state = "Running"
        BY <2>1, <2>2, <2>3, <2>5, <3>2 DEF Moved
      <4> QED
        BY <4>1
    <3>3. CASE w # parent
      <4>1. table'[w].state = deleted[w].state
        BY <1>1, <2>3, <3>1, <3>3 DEF Moved
      <4> QED
        BY <1>11, <3>1, <4>1
    <3> QED
      BY <3>2, <3>3
  <2>7. ASSUME NEW w \in Proc \ Listed PROVE table'[w].state = table[w].state
    <3>1. w # p /\ w # parent
      BY <1>1, <2>2
    <3> QED
      BY <1>1, <1>12, <2>3, <3>1 DEF Moved
  <2> QED
    BY <1>1, <1>4, <1>8, <1>14, <2>1, <2>2, <2>3, <2>4, <2>5, <2>6, <2>7, <2>8 DEF parent
<1> QED
  BY <1>13, <1>14

LEMMA DeleteSafe ==
  ASSUME IInv, SafeInv, NEW p \in Proc, MayEnd(p), EndFault(p) = "none",
         NEW t \in Table, \A w \in Proc : Same(table[w], t[w]),
         NEW rc \in Code, Delete(t, p, rc)
  PROVE  /\ SafeInv' /\ ObjectsKept /\ NoNewWaits
         /\ UNCHANGED pc \/ pc' = [pc EXCEPT ![p] = "exit"]
<1>1. /\ InOrder /\ mode = "running" /\ core = p /\ pc[p] = "user"
      /\ p \in Listed /\ p \notin Doomed
      /\ table[p].blockedBy = {} /\ scheduler.current = p
  BY Executing DEF MayEnd, Location
<1> DEFINE parent == table[p].parent
<1>2. /\ Listed' = Listed \ {p} /\ Doomed' = Doomed \cup {p}
      /\ OneToOne(processes') /\ OneToOne(terminateList')
      /\ SameOrigin(table[p], table'[p])
      /\ table'[p].blocks = {} /\ table'[p].blockedBy = {}
      /\ table'[p].state = "Terminated"
      /\ \A w \in Proc \ {p} :
           /\ SameOrigin(table[w], table'[w]) /\ table'[w].blocks = table[w].blocks
           /\ table'[w].blockedBy = table[w].blockedBy \ {p}
      /\ \A w \in Listed \ {p} :
           /\ table'[w].state = "Blocked" <=> table'[w].blockedBy # {}
           /\ table'[w].state \notin {"Free", "Terminated"}
      /\ \A w \in Proc \ Listed : table'[w].state = table[w].state
      /\ \/ /\ Borrows(p, parent) /\ parent \in Listed \ {p}
            /\ core' = parent
            /\ scheduler' = [current |-> parent, next |-> Null]
            /\ UNCHANGED pc
         \/ /\ ~table[p].vforkContext
            /\ pc' = [pc EXCEPT ![p] = "exit"]
            /\ UNCHANGED <<scheduler, core>>
  BY DeleteTable
<1> HIDE DEF parent
<1>3. mode' = mode
  BY DEF Delete
<1>4. /\ \A w \in Proc \ {p} : pc'[w] = pc[w]
      /\ pc'[p] \in {"user", "exit"}
  BY <1>1, <1>2 DEF IInv, Others
<1>5. ListsInv'
  <2>1. Live' = Live
    <3> SUFFICES ASSUME NEW w \in Proc
                 PROVE  table'[w].state # "Free" <=> table[w].state # "Free"
      BY DEF Live
    <3>1. CASE w \in Listed
      BY <1>2, <3>1 DEF SafeInv, ListsInv, Live
    <3>2. CASE w \notin Listed
      BY <1>2, <3>2
    <3> QED
      BY <3>1, <3>2
  <2> QED
    BY <1>1, <1>2, <2>1 DEF SafeInv, ListsInv
<1>6. PlacesInv'
  <2>1. \A w \in Listed' : w \in Proc \ {p} /\ w \in Listed
    BY <1>2, Types
  <2> QED
    BY <1>2, <1>4, <2>1 DEF SafeInv, PlacesInv
<1>7. WaitsInv'
  <2>1. ASSUME NEW w \in Proc, NEW q \in Proc
        PROVE  q \in table'[w].blockedBy <=> \E e \in table'[q].blocks : e.blocked = w
    <3>1. q \in table[w].blockedBy <=> \E e \in table[q].blocks : e.blocked = w
      BY DEF SafeInv, WaitsInv, WaitersKnown
    <3>2. q \in table'[w].blockedBy <=> q # p /\ q \in table[w].blockedBy
      BY <1>1, <1>2
    <3>3. CASE q = p
      BY <1>2, <3>2, <3>3
    <3>4. CASE q # p
      BY <1>2, <3>1, <3>2, <3>4
    <3> QED
      BY <3>3, <3>4
  <2>2. \A w \in Proc \ Listed' : table'[w].blockedBy = {} /\ table'[w].blocks = {}
    BY <1>2 DEF SafeInv, WaitsInv
  <2> QED
    BY <2>1, <2>2 DEF WaitsInv, WaitersKnown
<1>8. StatesInv'
  <2>1. ASSUME NEW w \in Doomed' PROVE table'[w].state = "Terminated"
    <3>1. w \in Doomed => w \in Proc \ Listed
      BY Types DEF SafeInv, ListsInv
    <3> QED
      BY <1>1, <1>2, <2>1, <3>1 DEF InOrder, StatesInv
  <2> QED
    BY <1>2, <2>1 DEF StatesInv
<1>9. BorrowInv'
  <2>1. \A w \in Proc : /\ table'[w].parent = table[w].parent
                        /\ table'[w].vforkContext = table[w].vforkContext
                        /\ table'[w].stackShared = table[w].stackShared
    BY <1>2 DEF SameOrigin
  <2>2. ASSUME NEW w \in Proc, NEW q \in Proc
        PROVE  Borrows(q, w)' <=> Borrows(q, w) /\ q # p
    BY <1>2, <2>1 DEF Borrows
  <2>3. ASSUME NEW w \in Proc, NEW q \in Proc, Borrows(q, w), q # p
        PROVE  w \in Listed' /\ w # core' /\ table'[w].blockedBy = {q} /\ pc'[w] = "user"
    <3>1. w \in Listed /\ w # core /\ table[w].blockedBy = {q} /\ pc[w] = "user"
      BY <1>1, <2>3 DEF InOrder, BorrowInv
    <3>2. w # p /\ table'[w].blockedBy = {q} /\ pc'[w] = "user"
      BY <1>1, <1>2, <1>4, <2>3, <3>1
    <3>3. w # core'
      <4>1. ASSUME Borrows(p, parent), parent \in Listed PROVE w # parent
        BY <1>1, <2>3, <3>1, <4>1, Types DEF InOrder, BorrowInv
      <4> QED
        BY <1>1, <1>2, <3>1, <4>1
    <3> QED
      BY <1>2, <3>1, <3>2, <3>3
  <2>4. \A q \in Listed' : table'[q].stackShared <=> table'[q].vforkContext
    BY <1>1, <1>2, <2>1, Types DEF InOrder, BorrowInv
  <2>5. ASSUME NEW w \in Listed', table'[w].blockedBy # {}
        PROVE  pc'[w] = "waitpid" \/ \E q \in Proc : Borrows(q, w)'
    <3>1. w \in Listed /\ w \in Proc \ {p}
      BY <1>2, <2>5, Types
    <3>2. table'[w].blockedBy = table[w].blockedBy \ {p} /\ table[w].blockedBy # {}
      BY <1>2, <2>5, <3>1
    <3>3. CASE pc[w] = "waitpid"
      BY <1>4, <3>1, <3>3
    <3>4. ASSUME NEW q \in Proc, Borrows(q, w) PROVE q # p
      <4>1. table[w].blockedBy = {q}
        BY <1>1, <3>1, <3>4 DEF InOrder, BorrowInv
      <4> QED
        BY <2>5, <3>2, <4>1
    <3> QED
      BY <1>1, <2>2, <3>1, <3>2, <3>3, <3>4 DEF InOrder, BorrowInv
  <2> QED
    BY <2>2, <2>3, <2>4, <2>5 DEF BorrowInv
<1>10. CoreInv'
  <2>1. CASE /\ parent \in Listed \ {p} /\ core' = parent
             /\ scheduler' = [current |-> parent, next |-> Null]
    BY <1>2, <2>1, NullAssumption, Types DEF CoreInv
  <2>2. CASE pc' = [pc EXCEPT ![p] = "exit"] /\ UNCHANGED <<scheduler, core>>
    <3>1. pc'[p] = "exit" /\ p # Null
      BY <2>2, NullAssumption DEF IInv, Others
    <3> QED
      BY <1>1, <1>2, <2>2, <3>1 DEF InOrder, CoreInv
  <2> QED
    BY <1>2, <2>1, <2>2
<1>11. ObjectsKept /\ NoNewWaits
  BY <1>1, <1>2, <1>5 DEF SafeInv, ListsInv, ObjectsKept, NoNewWaits, SameOrigin
<1> QED
  BY <1>2, <1>5, <1>6, <1>7, <1>8, <1>9, <1>10, <1>11 DEF SafeInv, InOrder

(* The two ways a program ends its process.  sys_exit first leaves the     *)
(* code in the cell of the parent.                                         *)
LEMMA ExitTold ==
  ASSUME IInv, NEW p \in Proc, NEW rc \in Code, Exit(p, rc)
  PROVE  \E told \in Table :
           /\ MayEnd(p) /\ EndFault(p) = "none" /\ Delete(told, p, rc)
           /\ \A w \in Proc : Same(table[w], told[w])
           /\ \A w \in Proc : told[w].childExitCode =
                IF w = table[p].parent THEN rc ELSE table[w].childExitCode
<1> DEFINE parent == table[p].parent
           heir   == [table[parent] EXCEPT !.childExitCode = rc]
           told   == IF parent = Null THEN table ELSE [table EXCEPT ![parent] = heir]
<1>1. MayEnd(p) /\ EndFault(p) = "none" /\ Delete(told, p, rc)
  BY DEF Exit
<1>2. parent \in Proc \cup {Null} /\ Null \notin Proc
  BY Types, NullAssumption DEF Process
<1>3. /\ told \in Table /\ \A w \in Proc : Same(table[w], told[w])
      /\ \A w \in Proc : told[w].childExitCode =
           IF w = parent THEN rc ELSE table[w].childExitCode
  <2>1. CASE parent = Null
    BY <1>2, <2>1, Types DEF Same, SameTies
  <2>2. CASE parent # Null
    <3>1. parent \in Proc /\ table[parent] \in Process
      BY <1>2, <2>2, Types
    <3> HIDE DEF parent
    <3>2. heir \in Process /\ heir.childExitCode = rc /\ Same(table[parent], heir)
      BY <3>1 DEF Same, SameTies, Process
    <3> HIDE DEF heir
    <3>3. told \in Table /\ \A w \in Proc : told[w] = IF w = parent THEN heir ELSE table[w]
      BY <2>2, <3>1, <3>2, Types DEF Table
    <3> HIDE DEF told
    <3> QED
      BY <3>2, <3>3 DEF Same, SameTies
  <2> QED
    BY <2>1, <2>2
<1> HIDE DEF told
<1> QED
  BY <1>1, <1>3 DEF parent

LEMMA ExitSafe ==
  ASSUME IInv, SafeInv, NEW p \in Proc, NEW rc \in Code, Exit(p, rc)
  PROVE  /\ SafeInv' /\ ObjectsKept /\ NoNewWaits
         /\ UNCHANGED pc \/ pc' = [pc EXCEPT ![p] = "exit"]
BY ExitTold, DeleteSafe

LEMMA KillSafe ==
  ASSUME IInv, SafeInv, NEW p \in Proc, Kill(p)
  PROVE  /\ SafeInv' /\ ObjectsKept /\ NoNewWaits
         /\ UNCHANGED pc \/ pc' = [pc EXCEPT ![p] = "exit"]
<1>1. MayEnd(p) /\ EndFault(p) = "none" /\ Delete(table, p, -1) /\ -1 \in Code
  BY HabitsAssumption DEF Kill
<1>2. \A w \in Proc : Same(table[w], table[w])
  BY DEF Same, SameTies
<1> QED
  BY <1>1, <1>2, Types, DeleteSafe

-----------------------------------------------------------------------------
(* The calls that leave who waits for whom as it is: what changes is where *)
(* p stands, and perhaps that p, woken, no longer counts as running.       *)
SameWait(r, s) ==
  /\ SameTies(r, s)
  /\ \A st \in {"Free", "Blocked", "Terminated"} : s.state = st <=> r.state = st

LEMMA SteadySafe ==
  ASSUME IInv, SafeInv, NEW p \in Proc, mode = "running", core = p,
         \A w \in Proc : SameWait(table[w], table'[w]),
         UNCHANGED <<processes, terminateList, scheduler, core, mode>>,
         \A w \in Proc \ {p} : pc'[w] = pc[w],
         \/ pc'[p] = pc[p]
         \/ p \in Listed /\ pc'[p] # "exit" /\ table[p].blockedBy = {}
  PROVE  SafeInv' /\ ObjectsKept /\ NoNewWaits
<1>1. InOrder /\ Listed' = Listed /\ Doomed' = Doomed
  BY DEF SafeInv, Listed, Doomed
<1>2. \A w \in Proc : SameTies(table[w], table'[w])
  BY DEF SameWait
<1>3. \A w \in Proc : Borrows(p, w) => w # p
  BY <1>1 DEF InOrder, BorrowInv
<1>4. ListsInv'
  <2>1. Live' = Live
    BY DEF Live, SameWait
  <2> QED
    BY <1>1, <2>1 DEF SafeInv, ListsInv
<1>5. PlacesInv'
  <2>1. \A w \in Listed : w \in Proc
    BY Types
  <2> QED
    BY <1>1, <2>1 DEF SafeInv, PlacesInv
<1>6. WaitsInv'
  BY <1>1, <1>2 DEF SafeInv, WaitsInv, WaitersKnown, SameTies
<1>7. StatesInv'
  <2>1. \A w \in Listed \cup Doomed : w \in Proc
    BY Types
  <2>2. \A w \in Proc : /\ table'[w].blockedBy = table[w].blockedBy
                        /\ table'[w].state = "Blocked" <=> table[w].state = "Blocked"
                        /\ table'[w].state = "Terminated" <=> table[w].state = "Terminated"
    BY DEF SameWait, SameTies
  <2> QED
    BY <1>1, <2>1, <2>2 DEF InOrder, StatesInv
<1>8. BorrowInv'
  <2>1. ASSUME NEW w \in Proc, NEW q \in Proc PROVE Borrows(q, w)' <=> Borrows(q, w)
    BY <1>1, <1>2 DEF Borrows, SameTies
  <2>2. \A q \in Listed' : table'[q].stackShared <=> table'[q].vforkContext
    BY <1>1, <1>2, Types DEF InOrder, BorrowInv, SameTies
  <2>3. ASSUME NEW w \in Proc, NEW q \in Proc, Borrows(q, w)
        PROVE  w \in Listed' /\ w # core' /\ table'[w].blockedBy = {q} /\ pc'[w] = "user"
    <3>1. w \in Listed /\ w # core /\ table[w].blockedBy = {q} /\ pc[w] = "user"
      BY <1>1, <2>3 DEF InOrder, BorrowInv
    <3> QED
      BY <1>1, <1>2, <3>1 DEF SameTies
  <2>4. ASSUME NEW w \in Listed', table'[w].blockedBy # {}
        PROVE  pc'[w] = "waitpid" \/ \E q \in Proc : Borrows(q, w)'
    <3>1. w \in Listed /\ w \in Proc /\ table[w].blockedBy # {}
      BY <1>1, <1>2, <2>4, Types DEF SameTies
    <3>2. pc'[w] = pc[w]
      BY <3>1
    <3> QED
      BY <1>1, <2>1, <3>1, <3>2 DEF InOrder, BorrowInv
  <2> QED
    BY <2>1, <2>2, <2>3, <2>4 DEF BorrowInv
<1>9. CoreInv'
  <2>1. table'[core].state = "Free" <=> table[core].state = "Free"
    BY DEF SameWait
  <2> QED
    BY <1>1, <2>1 DEF InOrder, CoreInv, SafeInv, PlacesInv
<1>10. ObjectsKept /\ NoNewWaits
  BY <1>1, <1>2, <1>4 DEF SafeInv, ListsInv, ObjectsKept, NoNewWaits, SameTies
<1> QED
  BY <1>4, <1>5, <1>6, <1>7, <1>8, <1>9, <1>10 DEF SafeInv, InOrder

(* The calls that only block or unblock, and the spinning at the end.      *)
LEMMA GateCallsSafe ==
  ASSUME IInv, SafeInv, NEW p \in Proc,
         VforkWithoutPid(p) \/ VforkOutOfMemory(p) \/ RefusedCall(p) \/ ExitSpin(p)
  PROVE  SafeInv' /\ ObjectsKept /\ NoNewWaits
<1>1. /\ mode = "running" /\ core = p
      /\ UNCHANGED <<table, processes, terminateList, scheduler, core, mode, pc>>
  BY DEF VforkWithoutPid, VforkOutOfMemory, RefusedCall, ExitSpin, Executes
<1>2. \A w \in Proc : SameWait(table[w], table'[w])
  BY <1>1 DEF SameWait, SameTies
<1> QED
  BY <1>1, <1>2, SteadySafe

(* create_process without its last section.                                *)
LEMMA CreateTakesSafe ==
  ASSUME IInv, SafeInv, NEW p \in Proc, CreateTakePid(p) \/ CreateOutOfMemory(p)
  PROVE  SafeInv' /\ ObjectsKept /\ NoNewWaits
<1>1. /\ mode = "running" /\ core = p /\ pc[p] \in {"user", "create"}
      /\ UNCHANGED <<table, processes, terminateList, scheduler, core, mode>>
      /\ \E l \in {"user", "create"} : pc' = [pc EXCEPT ![p] = l]
  BY DEF CreateTakePid, CreateOutOfMemory, Executes
<1>2. \A w \in Proc : SameWait(table[w], table'[w])
  BY <1>1 DEF SameWait, SameTies
<1>3. p \in Listed /\ table[p].blockedBy = {}
  BY <1>1, Executing DEF Location, Executes
<1>4. /\ \A w \in Proc \ {p} : pc'[w] = pc[w]
      /\ pc'[p] # "exit"
  BY <1>1 DEF IInv, Others
<1> QED
  BY <1>1, <1>2, <1>3, <1>4, SteadySafe

(* waitpid, but for its beginning.                                         *)
LEMMA WaitpidUnknownSafe ==
  ASSUME IInv, SafeInv, NEW p \in Proc, NEW n \in Pid, WaitpidUnknown(p, n)
  PROVE  SafeInv' /\ ObjectsKept /\ NoNewWaits
<1>1. /\ mode = "running" /\ core = p
      /\ UNCHANGED <<processes, terminateList, scheduler, core, mode, pc>>
  BY DEF WaitpidUnknown, Executes
<1>2. \A w \in Proc : SameWait(table[w], table'[w])
  <2> DEFINE r == [table[p] EXCEPT !.status = table[p].childExitCode]
  <2>1. SameWait(table[p], r)
    BY Types DEF SameWait, SameTies, Process
  <2>2. table' = [table EXCEPT ![p] = r]
    BY DEF WaitpidUnknown
  <2> HIDE DEF r
  <2> QED
    BY <2>1, <2>2, Types DEF Table, SameWait, SameTies
<1> QED
  BY <1>1, <1>2, SteadySafe

LEMMA WaitpidSpinSafe ==
  ASSUME IInv, SafeInv, NEW p \in Proc, WaitpidSpin(p)
  PROVE  SafeInv' /\ ObjectsKept /\ NoNewWaits
<1>1. /\ mode = "running" /\ core = p /\ p \in Listed /\ InOrder
      /\ table[p].state = "Blocked"
      /\ UNCHANGED <<processes, terminateList, scheduler, core, mode, pc>>
  BY Executing DEF WaitpidSpin, Executes, Location
<1>2. table[p].blockedBy # {}
  BY <1>1 DEF InOrder, StatesInv
<1>3. SameTies(table[p], Reevaluated(table[p])) /\ Reevaluated(table[p]).state = "Blocked"
  BY <1>1, <1>2, Types, ReevaluatedFields DEF StateOf
<1>4. /\ table'[p] = Reevaluated(table[p])
      /\ \A w \in Proc \ {p} : table'[w] = table[w]
  BY Types DEF WaitpidSpin, Reevaluate, Table
<1>5. \A w \in Proc : SameWait(table[w], table'[w])
  BY <1>1, <1>3, <1>4 DEF SameWait, SameTies
<1> QED
  BY <1>1, <1>5, SteadySafe

LEMMA WaitpidReturnSafe ==
  ASSUME IInv, SafeInv, NEW p \in Proc, WaitpidReturn(p)
  PROVE  SafeInv' /\ ObjectsKept /\ NoNewWaits
<1> DEFINE woken == Reevaluated(table[p])
           r     == [woken EXCEPT !.status = table[p].childExitCode]
<1>1. /\ mode = "running" /\ core = p /\ p \in Listed /\ InOrder
      /\ table[p].state \notin {"Blocked", "Free", "Terminated"}
      /\ UNCHANGED <<processes, terminateList, scheduler, core, mode>>
      /\ pc' = [pc EXCEPT ![p] = "user"]
  BY Executing DEF WaitpidReturn, Executes, Location
<1>2. table[p].blockedBy = {}
  BY <1>1 DEF InOrder, StatesInv
<1>3. SameTies(table[p], woken) /\ woken.state = "Ready" /\ woken \in Process
  BY <1>1, <1>2, Types, ReevaluatedFields, ReevaluatedType DEF StateOf
<1>4. table' = [table EXCEPT ![p] = r]
  BY DEF WaitpidReturn
<1> HIDE DEF woken
<1>5. SameWait(table[p], r)
  BY <1>1, <1>3 DEF SameWait, SameTies, Process
<1> HIDE DEF r
<1>6. \A w \in Proc : SameWait(table[w], table'[w])
  BY <1>4, <1>5, Types DEF Table, SameWait, SameTies
<1>7. pc'[p] = "user" /\ \A w \in Proc \ {p} : pc'[w] = pc[w]
  BY <1>1 DEF IInv, Others
<1> QED
  BY <1>1, <1>2, <1>6, <1>7, SteadySafe

LEMMA WaitpidBeginSafe ==
  ASSUME IInv, SafeInv, NEW p \in Proc, NEW q \in Proc, WaitpidBegin(p, q)
  PROVE  SafeInv' /\ ObjectsKept
<1> DEFINE e == [blocked |-> p, action |-> "waitpid"]
<1>1. /\ mode = "running" /\ core = p /\ p \in Listed /\ q \in Listed /\ InOrder
      /\ table[p].state \notin {"Free", "Terminated"} /\ table[p].blockedBy = {}
      /\ UNCHANGED <<processes, terminateList, scheduler, core, mode>>
      /\ Listed' = Listed /\ Doomed' = Doomed
  BY Executing DEF WaitpidBegin, Executes, Location, Listed, Doomed
<1>2. pc'[p] = "waitpid" /\ \A w \in Proc \ {p} : pc'[w] = pc[w]
  BY DEF WaitpidBegin, IInv, Others
<1>3. \A w \in Proc :
        /\ SameOrigin(table[w], table'[w])
        /\ w = q => table'[w].blocks = table[w].blocks \cup {e}
        /\ w # q => table'[w].blocks = table[w].blocks
        /\ w = p => table'[w].blockedBy = table[w].blockedBy \cup {q}
        /\ w # p => table'[w].blockedBy = table[w].blockedBy
        /\ w = p => table'[w].state = StateOf(table[w].state, table'[w].blockedBy)
        /\ w # p => table'[w].state = table[w].state
  <2>1. table' = WaitForProcess(table, p, q, "waitpid") /\ "waitpid" \in UnblockAction
    BY DEF WaitpidBegin, UnblockAction
  <2> QED
    BY <2>1, Types, WaitForProcessFields
<1>4. e.blocked = p
  OBVIOUS
<1> HIDE DEF e
<1>5. table'[p].blockedBy = {q} /\ table'[p].state = "Blocked"
  BY <1>1, <1>3 DEF StateOf
<1>6. ListsInv'
  <2>1. Live' = Live
    BY <1>1, <1>3, <1>5 DEF Live
  <2> QED
    BY <1>1, <2>1 DEF SafeInv, ListsInv
<1>7. PlacesInv'
  <2>1. \A w \in Listed : w \in Proc
    BY Types
  <2> QED
    BY <1>1, <1>2, <2>1 DEF SafeInv, PlacesInv
<1>8. WaitsInv'
  <2>1. ASSUME NEW v \in Proc, NEW w \in Proc
        PROVE  w \in table'[v].blockedBy <=> \E f \in table'[w].blocks : f.blocked = v
    <3>1. w \in table[v].blockedBy <=> \E f \in table[w].blocks : f.blocked = v
      BY DEF SafeInv, WaitsInv, WaitersKnown
    <3>2. w \in table'[v].blockedBy <=> w \in table[v].blockedBy \/ (v = p /\ w = q)
      BY <1>3
    <3>3. (\E f \in table'[w].blocks : f.blocked = v) <=>
            (\E f \in table[w].blocks : f.blocked = v) \/ (v = p /\ w = q)
      BY <1>3, <1>4
    <3> QED
      BY <3>1, <3>2, <3>3
  <2>2. \A w \in Proc \ Listed' : table'[w].blockedBy = {} /\ table'[w].blocks = {}
    BY <1>1, <1>3 DEF SafeInv, WaitsInv
  <2> QED
    BY <2>1, <2>2 DEF WaitsInv, WaitersKnown
<1>9. StatesInv'
  <2>1. \A w \in Listed \cup Doomed : w \in Proc
    BY Types
  <2> QED
    BY <1>1, <1>3, <1>5, <2>1 DEF InOrder, StatesInv, SafeInv, ListsInv
<1>10. BorrowInv'
  <2>1. ASSUME NEW v \in Proc, NEW w \in Proc PROVE Borrows(v, w)' <=> Borrows(v, w)
    BY <1>1, <1>3 DEF Borrows, SameOrigin
  <2>2. \A w \in Listed' : table'[w].stackShared <=> table'[w].vforkContext
    BY <1>1, <1>3, Types DEF InOrder, BorrowInv, SameOrigin
  <2>3. ASSUME NEW v \in Proc, NEW w \in Proc, Borrows(v, w)
        PROVE  w \in Listed' /\ w # core' /\ table'[w].blockedBy = {v} /\ pc'[w] = "user"
    <3>1. w \in Listed /\ w # core /\ table[w].blockedBy = {v} /\ pc[w] = "user"
      BY <1>1, <2>3 DEF InOrder, BorrowInv
    <3> QED
      BY <1>1, <1>2, <1>3, <3>1
  <2>4. ASSUME NEW w \in Listed', table'[w].blockedBy # {}
        PROVE  pc'[w] = "waitpid" \/ \E v \in Proc : Borrows(v, w)'
    <3>1. w \in Listed /\ w \in Proc
      BY <1>1, <2>4, Types
    <3>2. CASE w = p
      BY <1>2, <3>2
    <3>3. CASE w # p
      BY <1>1, <1>2, <1>3, <2>1, <2>4, <3>1, <3>3 DEF InOrder, BorrowInv
    <3> QED
      BY <3>2, <3>3
  <2> QED
    BY <2>1, <2>2, <2>3, <2>4 DEF BorrowInv
<1>11. CoreInv'
  <2>1. table'[core].state = "Free" <=> table[core].state = "Free"
    BY <1>1, <1>5
  <2> QED
    BY <1>1, <2>1 DEF InOrder, CoreInv
<1>12. ObjectsKept
  BY <1>1, <1>3, <1>6 DEF SafeInv, ListsInv, ObjectsKept, SameOrigin
<1> QED
  BY <1>6, <1>7, <1>8, <1>9, <1>10, <1>11, <1>12 DEF SafeInv, InOrder

-----------------------------------------------------------------------------
(* The last section of create_process: a process nobody knows is added.    *)
LEMMA CreateAppendSafe ==
  ASSUME IInv, SafeInv, NEW p \in Proc, CreateAppend(p)
  PROVE  SafeInv'
<1>1. /\ mode = "running" /\ core = p /\ p \in Listed /\ InOrder
      /\ p \notin Doomed /\ table[p].state # "Free" /\ pc[p] = "create"
      /\ UNCHANGED <<terminateList, scheduler, core, mode>>
      /\ scheduler.current = p
  BY Executing DEF CreateAppend, Executes, Location
<1>2. PICK q \in FreeSlots :
        /\ table' = [table EXCEPT ![q] = NewProcess(newPid[p])]
        /\ processes' = Append(processes, q)
        /\ pc' = [pc EXCEPT ![p] = "user", ![q] = "user"]
  BY DEF CreateAppend
<1>3. /\ q \in Proc /\ q \notin Live /\ q \notin Listed /\ q \notin Doomed /\ q # p
  BY <1>1 DEF FreeSlots, Live, SafeInv, ListsInv
<1>4. /\ table'[q] = NewProcess(newPid[p])
      /\ \A w \in Proc \ {q} : table'[w] = table[w]
  BY <1>2, <1>3, Types DEF Table
<1>5. /\ table'[q].state = "Ready" /\ table'[q].parent = Null
      /\ table'[q].blockedBy = {} /\ table'[q].blocks = {}
      /\ table'[q].vforkContext = FALSE /\ table'[q].stackShared = FALSE
  BY <1>4 DEF NewProcess, NoProcess
<1>6. Listed' = Listed \cup {q} /\ OneToOne(processes') /\ Doomed' = Doomed
  BY <1>1, <1>2, <1>3, Types, AppendElements DEF Listed, Doomed, SafeInv, ListsInv
<1>7. /\ pc'[p] = "user" /\ pc'[q] = "user"
      /\ \A w \in Proc \ {p, q} : pc'[w] = pc[w]
  BY <1>2, <1>3 DEF IInv, Others
<1>8. \A w \in Listed : w \in Proc \ {q}
  BY <1>3, Types
<1>9. ListsInv'
  <2>1. Live' = Live \cup {q}
    BY <1>3, <1>4, <1>5 DEF Live
  <2> QED
    BY <1>1, <1>3, <1>6, <2>1 DEF SafeInv, ListsInv
<1>10. PlacesInv'
  <2>1. \A w \in Proc : pc'[w] \in {"create", "waitpid"} => w \in Listed'
    BY <1>1, <1>6, <1>7 DEF SafeInv, PlacesInv
  <2>2. \A w \in Listed' : pc'[w] # "exit"
    BY <1>1, <1>6, <1>7, <1>8 DEF SafeInv, PlacesInv
  <2> QED
    BY <2>1, <2>2 DEF PlacesInv
<1>11. WaitsInv'
  <2>1. table[q].blockedBy = {} /\ table[q].blocks = {}
    BY <1>3 DEF SafeInv, WaitsInv
  <2>2. \A w \in Proc : table'[w].blockedBy = table[w].blockedBy /\ table'[w].blocks = table[w].blocks
    BY <1>4, <1>5, <2>1
  <2> QED
    BY <1>6, <2>2 DEF SafeInv, WaitsInv, WaitersKnown
<1>12. StatesInv'
  <2>1. \A w \in Doomed : w \in Proc \ {q}
    BY <1>3, Types
  <2> QED
    BY <1>1, <1>4, <1>5, <1>6, <1>8, <2>1 DEF InOrder, StatesInv
<1>13. BorrowInv'
  <2>1. ASSUME NEW v \in Proc, NEW w \in Proc PROVE Borrows(v, w)' <=> Borrows(v, w)
    BY <1>3, <1>4, <1>5, <1>6 DEF Borrows
  <2>2. \A w \in Listed' : table'[w].stackShared <=> table'[w].vforkContext
    BY <1>1, <1>4, <1>5, <1>6, <1>8 DEF InOrder, BorrowInv
  <2>3. ASSUME NEW v \in Proc, NEW w \in Proc, Borrows(v, w)
        PROVE  w \in Listed' /\ w # core' /\ table'[w].blockedBy = {v} /\ pc'[w] = "user"
    <3>1. w \in Listed /\ w # core /\ table[w].blockedBy = {v} /\ pc[w] = "user"
      BY <1>1, <2>3 DEF InOrder, BorrowInv
    <3> QED
      BY <1>1, <1>4, <1>6, <1>7, <1>8, <3>1
  <2>4. ASSUME NEW w \in Listed', table'[w].blockedBy # {}
        PROVE  pc'[w] = "waitpid" \/ \E v \in Proc : Borrows(v, w)'
    <3>1. w \in Listed /\ w \in Proc \ {q}
      BY <1>5, <1>6, <1>8, <2>4
    <3>2. table[w].blockedBy # {}
      BY <1>4, <2>4, <3>1
    <3>3. w # p
      BY <1>1, <3>1, <3>2, Executing DEF InOrder, BorrowInv
    <3> QED
      BY <1>1, <1>7, <2>1, <3>1, <3>2, <3>3 DEF InOrder, BorrowInv
  <2> QED
    BY <2>1, <2>2, <2>3, <2>4 DEF BorrowInv
<1>14. CoreInv'
  <2>1. table'[core].state = table[core].state
    BY <1>1, <1>3, <1>4
  <2> QED
    BY <1>1, <1>6, <2>1, NullAssumption DEF InOrder, CoreInv
<1> QED
  BY <1>9, <1>10, <1>11, <1>12, <1>13, <1>14 DEF SafeInv, InOrder

-----------------------------------------------------------------------------
(* The context switch.  First the dead are destroyed ...                   *)
LEMMA Destroyed ==
  ASSUME IInv, SafeInv
  PROVE  /\ Survivors \in Table
         /\ \A w \in Listed : Survivors[w] = table[w]
         /\ \A w \in Proc \ Listed :
              /\ Survivors[w].state = "Free"
              /\ Survivors[w].blocks = {} /\ Survivors[w].blockedBy = {}
<1>1. Survivors \in Table
  BY SurvivorsOK DEF IInv, TableOK
<1>2. /\ NoProcess.state = "Free" /\ NoProcess.blocks = {} /\ NoProcess.blockedBy = {}
  BY DEF NoProcess
<1>3. \A w \in Proc : /\ w \in Doomed => Survivors[w] = NoProcess
                      /\ w \notin Doomed => Survivors[w] = table[w]
  BY DEF Survivors
<1>4. \A w \in Listed : w \in Proc /\ w \notin Doomed
  BY Types DEF SafeInv, ListsInv
<1>5. \A w \in Proc \ Listed : /\ table[w].blocks = {} /\ table[w].blockedBy = {}
                               /\ w \notin Doomed => table[w].state = "Free"
  BY DEF SafeInv, ListsInv, WaitsInv, Live
<1> QED
  BY <1>1, <1>2, <1>3, <1>4, <1>5

(* ... and forgotten by the scheduler.                                     *)
LEMMA Forgotten ==
  ASSUME IInv, SafeInv, InOrder
  PROVE  LET s == RemoveProcesses(scheduler, Doomed)
         IN  /\ s \in Scheduler /\ s.next = Null
             /\ s.current \in Listed \cup {Null}
             /\ s.current \in {core, Null}
             /\ s.current = Null => scheduler.current = Null \/ scheduler.current \in Doomed
             /\ scheduler.current \in Listed => s.current = scheduler.current
<1>1. RemoveProcesses(scheduler, Doomed) \in Scheduler
  BY Types, RemoveProcessesType
<1>2. Null \notin Doomed
  BY Types, NullAssumption
<1> QED
  BY <1>1, <1>2 DEF RemoveProcesses, InOrder, CoreInv, SafeInv, ListsInv

(* What every outcome keeps.                                               *)
LEMMA ReapSafe ==
  ASSUME IInv, SafeInv, Reap, UNCHANGED <<processes, pc>>,
         \A w \in Proc : /\ table'[w].blocks = Survivors[w].blocks
                         /\ table'[w].blockedBy = Survivors[w].blockedBy
                         /\ table'[w].state = "Free" <=> Survivors[w].state = "Free"
  PROVE  /\ ListsInv' /\ PlacesInv' /\ WaitsInv'
         /\ Listed' = Listed /\ Doomed' = {}
         /\ \A w \in Proc : /\ table'[w].blocks = table[w].blocks
                            /\ table'[w].blockedBy = table[w].blockedBy
<1>1. /\ Listed' = Listed /\ OneToOne(processes')
      /\ Doomed' = {} /\ OneToOne(terminateList')
  <2>1. terminateList' = <<>> /\ processes' = processes
    BY DEF Reap
  <2>2. ToSet(<<>>) = {} /\ OneToOne(<<>>)
    BY DEF ToSet, OneToOne
  <2> QED
    BY <2>1, <2>2 DEF Listed, Doomed, SafeInv, ListsInv
<1>2. Live' = Listed
  <2>1. \A w \in Listed : w \in Proc /\ table[w].state # "Free"
    BY Types DEF SafeInv, ListsInv, Live
  <2> QED
    BY <2>1, Destroyed DEF Live
<1>3. \A w \in Proc : /\ table'[w].blocks = table[w].blocks
                      /\ table'[w].blockedBy = table[w].blockedBy
  <2>1. \A w \in Proc \ Listed : table[w].blocks = {} /\ table[w].blockedBy = {}
    BY DEF SafeInv, WaitsInv
  <2> QED
    BY <2>1, Destroyed
<1>4. ListsInv'
  BY <1>1, <1>2 DEF ListsInv
<1>5. PlacesInv'
  BY <1>1 DEF SafeInv, PlacesInv
<1>6. WaitsInv'
  BY <1>1, <1>3 DEF SafeInv, WaitsInv, WaitersKnown
<1> QED
  BY <1>1, <1>3, <1>4, <1>5, <1>6

(* Nothing to switch to.                                                   *)
LEMMA StaySafe ==
  ASSUME IInv, SafeInv, mode \in {"boot", "running"},
         Reap, UNCHANGED <<processes, pc, core>>, table' = Survivors,
         \/ mode' \notin {"boot", "running"}
         \/ /\ mode = "running"
            /\ scheduler' = RemoveProcesses(scheduler, Doomed)
  PROVE  SafeInv' /\ DeadDestroyed
<1>1. /\ ListsInv' /\ PlacesInv' /\ WaitsInv'
      /\ Listed' = Listed /\ Doomed' = {}
      /\ \A w \in Proc : table'[w].blockedBy = table[w].blockedBy
      /\ DeadDestroyed
  <2>1. /\ ListsInv' /\ PlacesInv' /\ WaitsInv'
        /\ Listed' = Listed /\ Doomed' = {}
        /\ \A w \in Proc : table'[w].blockedBy = table[w].blockedBy
    BY ReapSafe
  <2> QED
    BY <2>1, Destroyed DEF DeadDestroyed, SameTies
<1>2. CASE mode' \notin {"boot", "running"}
  BY <1>1, <1>2 DEF SafeInv
<1>3. CASE mode = "running" /\ scheduler' = RemoveProcesses(scheduler, Doomed)
  <2>1. InOrder
    BY DEF SafeInv
  <2>2. /\ \A w \in Listed : w \in Proc /\ table'[w] = table[w]
        /\ \A w \in Proc \ Listed : table'[w].state = "Free"
    BY Destroyed, Types
  <2>3. StatesInv'
    BY <1>1, <2>1, <2>2 DEF InOrder, StatesInv
  <2>4. \A v, w \in Proc : Borrows(v, w)' <=> Borrows(v, w)
    BY <1>1, <2>2 DEF Borrows
  <2>5. BorrowInv'
    <3>1. \A w \in Listed' : table'[w].stackShared <=> table'[w].vforkContext
      BY <1>1, <2>1, <2>2 DEF InOrder, BorrowInv
    <3>2. \A v \in Proc, w \in Proc : Borrows(w, v)' =>
            v \in Listed' /\ v # core' /\ table'[v].blockedBy = {w} /\ pc'[v] = "user"
      BY <1>1, <2>1, <2>2, <2>4 DEF InOrder, BorrowInv
    <3>3. \A v \in Listed' : table'[v].blockedBy # {} =>
            pc'[v] = "waitpid" \/ \E w \in Proc : Borrows(w, v)'
      BY <1>1, <2>1, <2>2, <2>4 DEF InOrder, BorrowInv
    <3> QED
      BY <3>1, <3>2, <3>3 DEF BorrowInv
  <2>6. CoreInv'
    <3>1. /\ scheduler'.next = Null
          /\ scheduler'.current \in Listed \cup {Null}
          /\ scheduler'.current \in {core, Null}
          /\ scheduler'.current = Null =>
               scheduler.current = Null \/ scheduler.current \in Doomed
          /\ scheduler.current \in Listed => scheduler'.current = scheduler.current
      BY <1>3, <2>1, Forgotten
    <3>2. scheduler.current = Null => core \notin Listed
      BY <1>3, <2>1, Types, NullAssumption DEF InOrder, CoreInv
    <3>3. scheduler.current \in Doomed => core \notin Listed
      BY <1>3, <2>1, Types, NullAssumption DEF InOrder, CoreInv, SafeInv, ListsInv
    <3>4. scheduler'.current = Null => table'[core].state = "Free"
      BY <2>2, <3>1, <3>2, <3>3, Types
    <3> QED
      BY <1>1, <1>3, <2>1, <3>1, <3>4 DEF InOrder, CoreInv
  <2> QED
    BY <1>1, <2>3, <2>5, <2>6 DEF SafeInv, InOrder
<1> QED
  BY <1>2, <1>3

(* A ready process n gets the processor.                                   *)
LEMMA SwitchSafe ==
  ASSUME IInv, SafeInv, mode \in {"boot", "running"},
         Reap, UNCHANGED <<processes, pc>>, mode' = "running",
         NEW n \in Listed, Survivors[n].state = "Ready",
         NEW s \in Scheduler, s.current \in Listed \cup {Null},
         Moved(Survivors, table', s, n),
         core' = n, scheduler' = [current |-> n, next |-> Null]
  PROVE  SafeInv' /\ DeadDestroyed
<1>1. n \in Proc /\ n # Null /\ Null \notin Listed /\ Listed \subseteq Proc
  BY Types, NullAssumption
<1>2. /\ \A w \in Listed : Survivors[w] = table[w]
      /\ \A w \in Proc \ Listed : Survivors[w].state = "Free"
  BY Destroyed
<1>3. InOrder
  BY DEF SafeInv
<1>4. table[n].blockedBy = {} /\ pc[n] # "exit"
  BY <1>2, <1>3 DEF InOrder, StatesInv, SafeInv, PlacesInv
<1>5. \A w \in Listed : table[w].state \notin {"Free", "Terminated"}
  BY <1>1, <1>3 DEF InOrder, StatesInv, SafeInv, ListsInv, Live
<1>6. \A w \in Proc \ Listed : table'[w].state = "Free" /\ SameTies(Survivors[w], table'[w])
  BY <1>1, <1>2, NullAssumption DEF Moved
<1>7. \A w \in Listed :
        /\ SameTies(table[w], table'[w])
        /\ table'[w].state = "Blocked" <=> table[w].blockedBy # {}
        /\ table'[w].state \notin {"Free", "Terminated"}
  <2> SUFFICES ASSUME NEW w \in Listed
               PROVE  /\ SameTies(table[w], table'[w])
                      /\ table'[w].state = "Blocked" <=> table[w].blockedBy # {}
                      /\ table'[w].state \notin {"Free", "Terminated"}
    OBVIOUS
  <2>1. w \in Proc /\ Survivors[w] = table[w]
    BY <1>1, <1>2
  <2>2. SameTies(table[w], table'[w])
    BY <2>1 DEF Moved
  <2>3. CASE w = n
    BY <1>4, <2>1, <2>2, <2>3 DEF Moved
  <2>4. CASE w # n /\ w = s.current
    BY <1>5, <2>1, <2>2, <2>4 DEF Moved, StateOf
  <2>5. CASE w # n /\ w # s.current
    <3>1. table'[w].state = table[w].state
      BY <2>1, <2>5 DEF Moved
    <3> QED
      BY <1>3, <1>5, <2>2, <3>1 DEF InOrder, StatesInv
  <2> QED
    BY <2>3, <2>4, <2>5
<1>8. \A w \in Proc : /\ table'[w].blocks = Survivors[w].blocks
                      /\ table'[w].blockedBy = Survivors[w].blockedBy
                      /\ table'[w].state = "Free" <=> Survivors[w].state = "Free"
  BY <1>2, <1>5, <1>6, <1>7 DEF SameTies
<1>9. /\ ListsInv' /\ PlacesInv' /\ WaitsInv'
      /\ Listed' = Listed /\ Doomed' = {}
  BY <1>8, ReapSafe
<1>10. StatesInv'
  BY <1>7, <1>9 DEF StatesInv, SameTies
<1>11. BorrowInv'
  <2>1. \A v, w \in Proc : Borrows(v, w)' <=> Borrows(v, w)
    BY <1>7, <1>9 DEF Borrows, SameTies
  <2>2. \A w \in Listed' : table'[w].stackShared <=> table'[w].vforkContext
    BY <1>3, <1>7, <1>9 DEF InOrder, BorrowInv, SameTies
  <2>3. ASSUME NEW v \in Proc, NEW w \in Proc, Borrows(w, v)
        PROVE  v \in Listed' /\ v # core' /\ table'[v].blockedBy = {w} /\ pc'[v] = "user"
    <3>1. v \in Listed /\ table[v].blockedBy = {w} /\ pc[v] = "user"
      BY <1>3, <2>3 DEF InOrder, BorrowInv
    <3> QED
      BY <1>4, <1>7, <1>9, <3>1 DEF SameTies
  <2>4. \A v \in Listed' : table'[v].blockedBy # {} =>
          pc'[v] = "waitpid" \/ \E w \in Proc : Borrows(w, v)'
    BY <1>1, <1>3, <1>7, <1>9, <2>1 DEF InOrder, BorrowInv, SameTies
  <2> QED
    BY <2>1, <2>2, <2>3, <2>4 DEF BorrowInv
<1>12. CoreInv'
  BY <1>1, <1>9 DEF CoreInv
<1> QED
  BY <1>7, <1>9, <1>10, <1>11, <1>12 DEF SafeInv, InOrder, DeadDestroyed

(* schedule_next finds nothing, or a ready process to switch to.           *)
LEMMA ScheduleNextProcessChooses ==
  ASSUME IInv, SafeInv, InOrder
  PROVE  LET s == RemoveProcesses(scheduler, Doomed)
             r == ScheduleNextProcess
         IN  \/ r.scheduler = s /\ r.action \notin {"Switch", "StoreAndSwitch"}
             \/ /\ r.action \in {"Switch", "StoreAndSwitch"}
                /\ \E n \in Listed \ {s.current} :
                     Survivors[n].state = "Ready" /\ r.scheduler = [s EXCEPT !.next = n]
<1> DEFINE s == RemoveProcesses(scheduler, Doomed)
           r == ScheduleNextProcess
<1>1. s \in Scheduler /\ s.next = Null
  BY Forgotten
<1>2. CASE processes = <<>>
  BY <1>2 DEF ScheduleNextProcess
<1>3. CASE processes # <<>>
  <2>1. r = ScheduleNext(s, Survivors, processes)
    BY <1>3 DEF ScheduleNextProcess
  <2> HIDE DEF s, r
  <2>2. processes \in Seq(Proc) /\ OneToOne(processes)
    BY Types DEF SafeInv, ListsInv
  <2>3. r = [action |-> "NoAction", scheduler |-> s] \/ Chosen(s, Survivors, processes, r)
    BY <1>1, <2>1, <2>2, ScheduleNextChooses
  <2>4. \/ r.scheduler = s /\ r.action \notin {"Switch", "StoreAndSwitch"}
        \/ /\ r.action \in {"Switch", "StoreAndSwitch"}
           /\ \E n \in Listed \ {s.current} :
                Survivors[n].state = "Ready" /\ r.scheduler = [s EXCEPT !.next = n]
    <3>1. CASE r = [action |-> "NoAction", scheduler |-> s]
      BY <3>1
    <3>2. CASE Chosen(s, Survivors, processes, r)
      <4>1. PICK n \in ToSet(processes) \ {s.current} :
              /\ Survivors[n].state = "Ready" /\ r.scheduler = [s EXCEPT !.next = n]
              /\ r.action \in {"Switch", "StoreAndSwitch"}
        BY <3>2 DEF Chosen
      <4> QED
        BY <4>1 DEF Listed
    <3> QED
      BY <2>3, <3>1, <3>2
  <2> QED
    BY <2>4 DEF s, r
<1> QED
  BY <1>2, <1>3

(* process_set_next_task.                                                  *)
LEMMA SetNextTaskSafe ==
  ASSUME IInv, SafeInv, mode \in {"boot", "running"}, Reap, UNCHANGED <<processes, pc>>,
         SetNextTask(ScheduleNextProcess.scheduler, Survivors)
  PROVE  SafeInv' /\ DeadDestroyed
<1> DEFINE s == RemoveProcesses(scheduler, Doomed)
           r == ScheduleNextProcess
<1>1. InOrder
  BY DEF SafeInv
<1>2. s \in Scheduler /\ s.next = Null /\ s.current \in Listed \cup {Null}
  BY <1>1, Forgotten
<1>3. \/ r.scheduler = s
      \/ \E n \in Listed \ {s.current} :
           Survivors[n].state = "Ready" /\ r.scheduler = [s EXCEPT !.next = n]
  BY <1>1, ScheduleNextProcessChooses
<1>4. SetNextTask(r.scheduler, Survivors)
  OBVIOUS
<1> HIDE DEF s, r
<1>5. CASE r.scheduler = s
  <2>1. GetNext(s) = Null
    BY <1>2 DEF GetNext
  <2>2. mode' = "panic" /\ table' = Survivors /\ UNCHANGED core
    BY <1>4, <1>5, <2>1 DEF SetNextTask
  <2> QED
    BY <2>2, StaySafe
<1>6. ASSUME NEW n \in Listed \ {s.current},
             Survivors[n].state = "Ready", r.scheduler = [s EXCEPT !.next = n]
      PROVE  SafeInv' /\ DeadDestroyed
  <2> DEFINE chosen == [s EXCEPT !.next = n]
  <2>1. chosen.next = n /\ chosen.current = s.current
    BY <1>2 DEF Scheduler
  <2>2. n \in Proc /\ n # Null
    BY Types, NullAssumption
  <2>3. GetNext(chosen) = n
    BY <2>1 DEF GetNext
  <2>4. SetNextTask(chosen, Survivors)
    BY <1>4, <1>6
  <2>5. /\ UpdateCurrent(chosen, Survivors).scheduler = [current |-> n, next |-> Null]
        /\ Moved(Survivors, UpdateCurrent(chosen, Survivors).table, s, n)
    BY <1>2, <2>2, Destroyed, UpdateCurrentFields
  <2> HIDE DEF chosen
  <2>6. /\ mode' = "running" /\ core' = n
        /\ table' = UpdateCurrent(chosen, Survivors).table
        /\ scheduler' = UpdateCurrent(chosen, Survivors).scheduler
    BY <2>2, <2>3, <2>4 DEF SetNextTask
  <2>7. Moved(Survivors, table', s, n) /\ scheduler' = [current |-> n, next |-> Null]
    BY <2>5, <2>6
  <2> QED
    BY <1>2, <1>6, <2>6, <2>7, SwitchSafe
<1> QED
  BY <1>3, <1>5, <1>6

LEMMA StartRootSafe ==
  ASSUME IInv, SafeInv, StartRoot PROVE SafeInv' /\ DeadDestroyed
BY SetNextTaskSafe DEF StartRoot

LEMMA ContextSwitchSafe ==
  ASSUME IInv, SafeInv, ContextSwitch PROVE SafeInv' /\ DeadDestroyed
<1>1. mode = "running" /\ Reap /\ UNCHANGED <<processes, pc>> /\ InOrder
  BY DEF ContextSwitch, SafeInv
<1>2. CASE SetNextTask(ScheduleNextProcess.scheduler, Survivors)
  BY <1>1, <1>2, SetNextTaskSafe
<1>3. CASE /\ ScheduleNextProcess.action \notin {"Switch", "StoreAndSwitch"}
           /\ table' = Survivors /\ scheduler' = ScheduleNextProcess.scheduler
           /\ UNCHANGED core
           /\ mode' = mode \/ mode' = "main"
  <2>1. CASE mode' = "main"
    BY <1>1, <1>3, <2>1, StaySafe
  <2>2. CASE mode' = mode
    <3>1. ScheduleNextProcess.scheduler = RemoveProcesses(scheduler, Doomed)
      BY <1>1, <1>3, ScheduleNextProcessChooses
    <3> QED
      BY <1>1, <1>3, <2>2, <3>1, StaySafe
  <2> QED
    BY <1>3, <2>1, <2>2
<1> QED
  BY <1>2, <1>3 DEF ContextSwitch

-----------------------------------------------------------------------------
(* The root process alone.                                                 *)
LEMMA InitSafeInv == Init => SafeInv
<1> SUFFICES ASSUME Init PROVE SafeInv
  OBVIOUS
<1> DEFINE root == CHOOSE p \in Proc : TRUE
<1>1. root \in Proc
  BY ProcAssumption
<1>2. /\ table = [p \in Proc |-> IF p = root THEN NewProcess(1) ELSE NoProcess]
      /\ processes = <<root>> /\ terminateList = <<>>
      /\ scheduler = [current |-> Null, next |-> Null]
      /\ pc = [p \in Proc |-> "user"] /\ mode = "boot"
  BY DEF Init
<1> HIDE DEF root
<1>3. /\ NewProcess(1).state = "Ready" /\ NewProcess(1).blocks = {}
      /\ NewProcess(1).blockedBy = {} /\ NewProcess(1).vforkContext = FALSE
      /\ NewProcess(1).stackShared = FALSE
      /\ NoProcess.state = "Free" /\ NoProcess.blocks = {} /\ NoProcess.blockedBy = {}
  BY DEF NewProcess, NoProcess
<1>4. /\ Listed = {root} /\ Doomed = {} /\ OneToOne(processes) /\ OneToOne(terminateList)
  BY <1>2 DEF Listed, Doomed, ToSet, OneToOne
<1>5. /\ table[root] = NewProcess(1)
      /\ \A w \in Proc \ {root} : table[w] = NoProcess
      /\ \A w \in Proc : table[w].blocks = {} /\ table[w].blockedBy = {}
  BY <1>1, <1>2, <1>3
<1>6. ListsInv
  BY <1>1, <1>3, <1>4, <1>5 DEF ListsInv, Live
<1>7. PlacesInv
  BY <1>1, <1>2, <1>4 DEF PlacesInv
<1>8. WaitsInv
  BY <1>5 DEF WaitsInv, WaitersKnown
<1>9. StatesInv
  BY <1>3, <1>4, <1>5 DEF StatesInv
<1>10. BorrowInv
  BY <1>1, <1>3, <1>4, <1>5 DEF BorrowInv, Borrows
<1>11. CoreInv
  BY <1>2 DEF CoreInv
<1> QED
  BY <1>6, <1>7, <1>8, <1>9, <1>10, <1>11 DEF SafeInv, InOrder

(* Every step keeps the invariant.                                         *)
LEMMA NextSafeInv ==
  ASSUME "reExec" \notin Habits, IInv, SafeInv, [Next]_vars
  PROVE  SafeInv'
<1>1. CASE UNCHANGED vars
  BY <1>1 DEF vars, SafeInv, ListsInv, PlacesInv, WaitsInv, WaitersKnown, InOrder,
              StatesInv, BorrowInv, Borrows, CoreInv, Listed, Doomed, Live
<1>2. ASSUME NEW p \in Proc, SystemCall(p) PROVE SafeInv'
  BY <1>2, VforkSafe, GateCallsSafe, ExecSafe, ExecsOnce, ExitSafe, KillSafe,
     EndFaultsSafe, WaitpidBeginSafe, WaitpidUnknownSafe, CreateTakesSafe DEF SystemCall
<1>3. ASSUME NEW p \in Proc, KernelStep(p) PROVE SafeInv'
  BY <1>3, GateCallsSafe, WaitpidSpinSafe, WaitpidReturnSafe, CreateAppendSafe,
     CreateTakesSafe DEF KernelStep
<1> QED
  BY <1>1, <1>2, <1>3, StartRootSafe, ContextSwitchSafe DEF Next

LEMMA SpecSafeInv == ASSUME "reExec" \notin Habits PROVE Spec => []SafeInv
<1>1. IInv /\ SafeInv /\ IInv' /\ [Next]_vars => SafeInv'
  BY NextSafeInv
<1> QED
  BY <1>1, InitSafeInv, SpecIInv, PTL DEF Spec

-----------------------------------------------------------------------------
(* The theorems.                                                           *)

(* The two lists one after the other.                                      *)
LEMMA BothLists ==
  ASSUME NEW a \in Seq(Proc), NEW b \in Seq(Proc), OneToOne(a), OneToOne(b),
         ToSet(a) \cap ToSet(b) = {}
  PROVE  OneToOne(a \o b) /\ ToSet(a \o b) = ToSet(a) \cup ToSet(b)
<1> DEFINE both == a \o b
<1>1. /\ Len(a) \in Nat /\ DOMAIN a = 1..Len(a)
      /\ Len(b) \in Nat /\ DOMAIN b = 1..Len(b)
  BY Elements
<1>2. /\ both \in Seq(Proc) /\ Len(both) = Len(a) + Len(b)
      /\ \A i \in 1..Len(a) + Len(b) : both[i] = IF i =< Len(a) THEN a[i] ELSE b[i - Len(a)]
  BY ConcatProperties
<1> HIDE DEF both
<1>3. DOMAIN both = 1..Len(a) + Len(b)
  BY <1>2, Elements
<1>4. \A i \in 1..Len(a) : i \in 1..Len(a) + Len(b) /\ both[i] = a[i]
  BY <1>1, <1>2
<1>5. \A i \in 1..Len(b) : i + Len(a) \in 1..Len(a) + Len(b) /\ both[i + Len(a)] = b[i]
  BY <1>1, <1>2
<1>6. \A i \in 1..Len(a) + Len(b) :
        i \in 1..Len(a) \/ \E j \in 1..Len(b) : i = j + Len(a)
  <2> SUFFICES ASSUME NEW i \in 1..Len(a) + Len(b), i \notin 1..Len(a)
               PROVE  \E j \in 1..Len(b) : i = j + Len(a)
    OBVIOUS
  <2>1. i - Len(a) \in 1..Len(b) /\ i = (i - Len(a)) + Len(a)
    BY <1>1
  <2> QED
    BY <2>1
<1>7. ToSet(both) = ToSet(a) \cup ToSet(b)
  <2>1. ASSUME NEW x PROVE x \in ToSet(both) <=> x \in ToSet(a) \/ x \in ToSet(b)
    <3>1. x \in ToSet(both) <=> \E i \in 1..Len(a) + Len(b) : both[i] = x
      BY <1>3 DEF ToSet
    <3>2. x \in ToSet(a) <=> \E i \in 1..Len(a) : a[i] = x
      BY Elements
    <3>3. x \in ToSet(b) <=> \E i \in 1..Len(b) : b[i] = x
      BY Elements
    <3> QED
      BY <1>4, <1>5, <1>6, <3>1, <3>2, <3>3, ZenonT(40)
  <2> QED
    BY <2>1
<1>8. ASSUME NEW i \in 1..Len(a) + Len(b), NEW j \in 1..Len(a) + Len(b), both[i] = both[j]
      PROVE  i = j
  <2>1. \A k \in 1..Len(a) : both[k] \in ToSet(a)
    BY <1>4, Elements
  <2>2. \A k \in 1..Len(b) : both[k + Len(a)] \in ToSet(b)
    BY <1>5, Elements
  <2>3. CASE i \in 1..Len(a) /\ j \in 1..Len(a)
    BY <1>1, <1>4, <1>8, <2>3 DEF OneToOne
  <2>4. CASE i \notin 1..Len(a) /\ j \notin 1..Len(a)
    <3>1. PICK k \in 1..Len(b) : i = k + Len(a)
      BY <1>6, <2>4
    <3>2. PICK l \in 1..Len(b) : j = l + Len(a)
      BY <1>6, <2>4
    <3>3. b[k] = b[l]
      BY <1>5, <1>8, <3>1, <3>2
    <3> QED
      BY <1>1, <3>1, <3>2, <3>3 DEF OneToOne
  <2>5. CASE i \in 1..Len(a) /\ j \notin 1..Len(a)
    BY <1>6, <1>8, <2>1, <2>2, <2>5
  <2>6. CASE i \notin 1..Len(a) /\ j \in 1..Len(a)
    BY <1>6, <1>8, <2>1, <2>2, <2>6
  <2> QED
    BY <2>3, <2>4, <2>5, <2>6
<1> QED
  BY <1>3, <1>7, <1>8 DEF OneToOne, both

LEMMA ListsFromInv == IInv /\ SafeInv => ListsExact
<1> SUFFICES ASSUME IInv, SafeInv PROVE ListsExact
  OBVIOUS
<1> DEFINE both == processes \o terminateList
<1>1. OneToOne(both) /\ ToSet(both) = Live
  BY Types, BothLists DEF SafeInv, ListsInv, Listed, Doomed
<1>2. mode = "running" =>
        \A p \in Live : table[p].state = "Terminated" <=> p \in ToSet(terminateList)
  BY DEF SafeInv, ListsInv, InOrder, StatesInv, Doomed
<1> QED
  BY <1>1, <1>2 DEF ListsExact, OneToOne

LEMMA BorrowedFromInv == IInv /\ SafeInv => BorrowedStackSafe
<1> SUFFICES ASSUME IInv, SafeInv, mode = "running", NEW q \in Listed, table[q].stackShared
             PROVE  /\ table[q].parent \in Listed /\ core # table[q].parent
                    /\ table[table[q].parent].state = "Blocked"
                    /\ \A r \in Listed :
                         table[r].stackShared /\ table[r].parent = table[q].parent => r = q
  BY DEF BorrowedStackSafe, Listed
<1> DEFINE p == table[q].parent
<1>1. InOrder /\ \A r \in Listed : r \in Proc
  BY Types DEF SafeInv
<1>2. table[q].vforkContext /\ p \in Proc /\ Borrows(q, p)
  BY <1>1 DEF InOrder, BorrowInv, IInv, TableOK, Borrows
<1>3. p \in Listed /\ p # core /\ table[p].blockedBy = {q}
  BY <1>1, <1>2 DEF InOrder, BorrowInv
<1>4. table[p].state = "Blocked"
  BY <1>1, <1>3 DEF InOrder, StatesInv
<1>5. ASSUME NEW r \in Listed, table[r].stackShared, table[r].parent = p PROVE r = q
  <2>1. Borrows(r, p)
    BY <1>1, <1>5 DEF InOrder, BorrowInv, Borrows
  <2>2. table[p].blockedBy = {r}
    BY <1>1, <1>2, <2>1 DEF InOrder, BorrowInv
  <2> QED
    BY <1>3, <2>2
<1> QED
  BY <1>3, <1>4, <1>5

LEMMA WaitersFromInv == IInv /\ SafeInv => WaitersKnown /\ WaitersBlocked
<1> SUFFICES ASSUME IInv, SafeInv PROVE WaitersKnown /\ WaitersBlocked
  OBVIOUS
<1>1. WaitersKnown
  BY DEF SafeInv, WaitsInv
<1>2. ASSUME NEW p \in Listed, NEW q \in table[p].blockedBy PROVE q \in Listed
  <2>1. p \in Proc /\ q \in Proc
    BY Types DEF Process
  <2>2. \E e \in table[q].blocks : e.blocked = p
    BY <1>1, <2>1 DEF WaitersKnown
  <2> QED
    BY <2>1, <2>2 DEF SafeInv, WaitsInv
<1>3. mode = "running" => StatesInv
  BY DEF SafeInv, InOrder
<1>4. WaitersBlocked
  BY <1>2, <1>3 DEF WaitersBlocked, StatesInv, Listed
<1> QED
  BY <1>1, <1>4

LEMMA CurrentFromInv == IInv /\ SafeInv => CurrentIsCore
<1> SUFFICES ASSUME IInv, SafeInv, mode = "running" PROVE CurrentIsCore
  BY DEF CurrentIsCore
<1>1. InOrder
  BY DEF SafeInv
<1>2. scheduler.current = Null => core \notin Listed
  BY <1>1, Types, NullAssumption DEF InOrder, CoreInv
<1> QED
  BY <1>1, <1>2 DEF CurrentIsCore, InOrder, CoreInv

(* As long as no program calls exec a second time, the process list and    *)
(* the terminate list hold every process object exactly once:              *)
(* delete_process and schedule_next destroy each object once and lose      *)
(* none.                                                                   *)
THEOREM EveryObjectListed ==
  ASSUME "reExec" \notin Habits
  PROVE  Spec => []ListsExact
BY ListsFromInv, SpecIInv, SpecSafeInv, PTL

(* As long as no program calls exec a second time, a parent does not       *)
(* execute, and the scheduler cannot choose it, while its vfork child      *)
(* lives on its stack, and no second child does.  A second exec does break *)
(* it: prepare_exec makes the parent of its caller run, whoever lives on   *)
(* that parent's stack.                                                    *)
THEOREM BorrowedStackIsSafe ==
  ASSUME "reExec" \notin Habits
  PROVE  Spec => []BorrowedStackSafe
BY BorrowedFromInv, SpecIInv, SpecSafeInv, PTL

(* As long as no program calls exec a second time, wait_for_process,       *)
(* unblock_parent and unblock_all keep the two sides of every wait in      *)
(* agreement: no wake-up is lost.                                          *)
THEOREM NoWakeUpIsLost ==
  ASSUME "reExec" \notin Habits
  PROVE  Spec => []WaitersKnown
BY WaitersFromInv, SpecIInv, SpecSafeInv, PTL

(* As long as no program calls exec a second time, a process that waits is *)
(* blocked, and waits for processes that are still in the list.  A second  *)
(* exec does break it: prepare_exec makes the parent of its caller run,    *)
(* whomever that parent waits for.                                         *)
THEOREM WaitersAreBlocked ==
  ASSUME "reExec" \notin Habits
  PROVE  Spec => []WaitersBlocked
BY WaitersFromInv, SpecIInv, SpecSafeInv, PTL

(* As long as no program calls exec a second time, the processor executes  *)
(* the scheduler's current process, or spins at the end of a destroyed     *)
(* one.                                                                    *)
THEOREM ProcessorAgrees ==
  ASSUME "reExec" \notin Habits
  PROVE  Spec => []CurrentIsCore
BY CurrentFromInv, SpecIInv, SpecSafeInv, PTL

-----------------------------------------------------------------------------
(* Pids.                                                                   *)

(* get_next_pid offers a pid that is free.                                 *)
LEMMA NextPidFree == ASSUME IInv, pidMap # {} PROVE NextPid \in pidMap
<1>1. pidMap \subseteq Nat
  BY MaxPidAssumption DEF IInv, Others, Pid
<1> QED
  BY <1>1, MinOfNaturals DEF NextPid

(* A step that creates no object, takes no pid and begins no create.       *)
LEMMA CalmPids ==
  ASSUME PidUnique, ObjectsKept, pidMap' \subseteq pidMap,
         \A p \in Proc : pc'[p] = "create" => pc[p] = "create" /\ newPid'[p] = newPid[p]
  PROVE  PidUnique'
<1>1. \A p \in Proc : p \in Live => table'[p].pid = table[p].pid
  BY DEF ObjectsKept
<1>2. Live' = Live /\ Live \subseteq Proc
  BY DEF ObjectsKept, Live
<1> QED
  BY <1>1, <1>2 DEF PidUnique

(* An object that is not alive gets a pid nobody holds.                    *)
LEMMA VforkPids ==
  ASSUME IInv, SafeInv, PidUnique, NEW p \in Proc, Vfork(p)
  PROVE  PidUnique'
<1>1. PICK child \in FreeSlots :
        /\ pc' = [pc EXCEPT ![child] = "user"]
        /\ table'[child].pid = NextPid
        /\ table'[child].state = "Running"
        /\ SameOrigin(table[p], table'[p]) /\ table'[p].state = "Blocked"
        /\ \A w \in Proc \ {child, p} : Same(table[w], table'[w])
  BY VforkTable
<1>2. p \in Live /\ child \in Proc /\ child \notin Live
  BY <1>1, Executing DEF Vfork, Location, Live, FreeSlots
<1>3. NextPid \in pidMap /\ pidMap \subseteq Pid
  BY NextPidFree DEF Vfork, IInv, Others
<1>4. pidMap' = pidMap \ {NextPid} /\ newPid' = newPid
  BY DEF Vfork
<1>5. Live' = Live \cup {child}
  BY <1>1, <1>2 DEF Live, Same
<1>6. \A w \in Live : table'[w].pid = table[w].pid /\ w # child
  BY <1>1, <1>2 DEF Same, SameTies, SameOrigin, Live
<1>7. \A w \in Proc : pc'[w] = "create" => pc[w] = "create"
  BY <1>1, <1>2 DEF IInv, Others
<1>8. \A w \in Live : table[w].pid \in Pid \ pidMap /\ table[w].pid # NextPid
  BY <1>3 DEF PidUnique
<1>9. \A w \in Proc : pc[w] = "create" => newPid[w] \in Pid \ pidMap /\ newPid[w] # NextPid
  BY <1>3 DEF PidUnique
<1>10. \A v, w \in Live' : table'[v].pid = table'[w].pid => v = w
  BY <1>1, <1>5, <1>6, <1>8 DEF PidUnique
<1>11. \A w \in Live' : table'[w].pid \in Pid \ pidMap'
  BY <1>1, <1>3, <1>4, <1>5, <1>6, <1>8
<1>12. ASSUME NEW w \in Proc, pc'[w] = "create"
       PROVE  /\ newPid'[w] \in Pid \ pidMap'
              /\ \A q \in Live' : table'[q].pid # newPid'[w]
              /\ \A q \in {v \in Proc : pc'[v] = "create"} \ {w} : newPid'[q] # newPid'[w]
  BY <1>1, <1>4, <1>5, <1>6, <1>7, <1>9, <1>12 DEF PidUnique
<1> QED
  BY <1>10, <1>11, <1>12 DEF PidUnique

(* create_process takes a pid nobody holds.                                *)
LEMMA CreateTakePids ==
  ASSUME IInv, PidUnique, NEW p \in Proc, CreateTakePid(p)
  PROVE  PidUnique'
<1>1. NextPid \in pidMap /\ pidMap \subseteq Pid
  BY NextPidFree DEF CreateTakePid, IInv, Others
<1>2. /\ pidMap' = pidMap \ {NextPid} /\ Live' = Live /\ table' = table
      /\ newPid'[p] = NextPid /\ \A w \in Proc \ {p} : newPid'[w] = newPid[w]
      /\ \A w \in Proc \ {p} : pc'[w] = pc[w]
  BY DEF CreateTakePid, IInv, Others, Live
<1>3. \A w \in Live : table[w].pid \in Pid \ pidMap /\ table[w].pid # NextPid
  BY <1>1 DEF PidUnique
<1>4. \A w \in Proc : pc[w] = "create" => newPid[w] \in Pid \ pidMap /\ newPid[w] # NextPid
  BY <1>1 DEF PidUnique
<1>5. ASSUME NEW w \in Proc, pc'[w] = "create"
      PROVE  /\ newPid'[w] \in Pid \ pidMap'
             /\ \A q \in Live' : table'[q].pid # newPid'[w]
             /\ \A q \in {v \in Proc : pc'[v] = "create"} \ {w} : newPid'[q] # newPid'[w]
  <2>1. CASE w = p
    BY <1>1, <1>2, <1>3, <1>4, <2>1
  <2>2. CASE w # p
    BY <1>1, <1>2, <1>3, <1>4, <1>5, <2>2 DEF PidUnique
  <2> QED
    BY <2>1, <2>2
<1> QED
  BY <1>1, <1>2, <1>3, <1>5 DEF PidUnique

(* It gives that pid to the object it appends.                             *)
LEMMA CreateAppendPids ==
  ASSUME IInv, SafeInv, PidUnique, NEW p \in Proc, CreateAppend(p)
  PROVE  PidUnique'
<1>1. p \in Live /\ pc[p] = "create"
  BY Executing DEF CreateAppend, Executes, Location, Live
<1>2. PICK q \in FreeSlots :
        /\ table' = [table EXCEPT ![q] = NewProcess(newPid[p])]
        /\ pc' = [pc EXCEPT ![p] = "user", ![q] = "user"]
  BY DEF CreateAppend
<1>3. q \in Proc /\ q \notin Live /\ q # p
  BY <1>1 DEF FreeSlots, Live
<1>4. /\ table'[q] = NewProcess(newPid[p])
      /\ \A w \in Proc \ {q} : table'[w] = table[w]
  BY <1>2, <1>3, Types DEF Table
<1>5. table'[q].pid = newPid[p] /\ table'[q].state = "Ready"
  BY <1>4 DEF NewProcess, NoProcess
<1>6. Live' = Live \cup {q} /\ Live \subseteq Proc
  BY <1>3, <1>4, <1>5 DEF Live
<1>7. /\ pc'[p] = "user" /\ pc'[q] = "user" /\ pidMap' = pidMap
      /\ \A w \in Proc \ {p, q} : pc'[w] = pc[w] /\ newPid'[w] = newPid[w]
  BY <1>2, <1>3 DEF CreateAppend, IInv, Others
<1>8. newPid[p] \in Pid \ pidMap /\ \A w \in Live : table[w].pid # newPid[p]
  BY <1>1 DEF PidUnique
<1>9. \A w \in Live : table'[w].pid = table[w].pid
  BY <1>3, <1>4, <1>6
<1>10. \A v, w \in Live' : table'[v].pid = table'[w].pid => v = w
  BY <1>5, <1>6, <1>8, <1>9 DEF PidUnique
<1>11. \A w \in Live' : table'[w].pid \in Pid \ pidMap'
  BY <1>5, <1>6, <1>7, <1>8, <1>9 DEF PidUnique
<1>12. ASSUME NEW w \in Proc, pc'[w] = "create"
       PROVE  /\ newPid'[w] \in Pid \ pidMap'
              /\ \A v \in Live' : table'[v].pid # newPid'[w]
              /\ \A v \in {u \in Proc : pc'[u] = "create"} \ {w} : newPid'[v] # newPid'[w]
  <2>1. w \notin {p, q} /\ pc[w] = "create" /\ newPid'[w] = newPid[w] /\ newPid[w] # newPid[p]
    BY <1>1, <1>7, <1>12 DEF PidUnique
  <2>2. \A v \in Live' : table'[v].pid # newPid'[w]
    BY <1>5, <1>6, <1>9, <2>1 DEF PidUnique
  <2>3. \A v \in Proc : pc'[v] = "create" => pc[v] = "create" /\ newPid'[v] = newPid[v]
    BY <1>7
  <2> QED
    BY <1>7, <2>1, <2>2, <2>3 DEF PidUnique
<1> QED
  BY <1>10, <1>11, <1>12 DEF PidUnique

(* The pids of the dead are given back.                                    *)
LEMMA ReapPids ==
  ASSUME IInv, SafeInv, SafeInv', PidUnique, Reap, DeadDestroyed, UNCHANGED <<pc, newPid>>
  PROVE  PidUnique'
<1>1. /\ Live = Listed \cup Doomed /\ Listed \cap Doomed = {} /\ Live \subseteq Proc
      /\ Live' = Listed
      /\ \A w \in Listed : table'[w].pid = table[w].pid
  BY DEF SafeInv, ListsInv, DeadDestroyed, SameTies, Live
<1>2. pidMap' \subseteq pidMap \cup {table[w].pid : w \in Doomed}
  BY DEF Reap, Released
<1>3. \A v, w \in Live' : table'[v].pid = table'[w].pid => v = w
  BY <1>1 DEF PidUnique
<1>4. ASSUME NEW w \in Live' PROVE table'[w].pid \in Pid \ pidMap'
  <2>1. w \in Live /\ w \notin Doomed /\ table'[w].pid = table[w].pid
    BY <1>1
  <2>2. \A v \in Doomed : table[v].pid # table[w].pid
    BY <1>1, <2>1 DEF PidUnique
  <2> QED
    BY <1>2, <2>1, <2>2 DEF PidUnique
<1>5. ASSUME NEW w \in Proc, pc'[w] = "create"
      PROVE  /\ newPid'[w] \in Pid \ pidMap'
             /\ \A v \in Live' : table'[v].pid # newPid'[w]
             /\ \A v \in {u \in Proc : pc'[u] = "create"} \ {w} : newPid'[v] # newPid'[w]
  <2>1. \A v \in Live : table[v].pid # newPid[w]
    BY <1>5 DEF PidUnique
  <2>2. newPid[w] \in Pid \ pidMap
    BY <1>5 DEF PidUnique
  <2> QED
    BY <1>1, <1>2, <1>5, <2>1, <2>2 DEF PidUnique
<1> QED
  BY <1>3, <1>4, <1>5 DEF PidUnique

LEMMA InitPids == Init => PidUnique
<1> SUFFICES ASSUME Init PROVE PidUnique
  OBVIOUS
<1> DEFINE root == CHOOSE p \in Proc : TRUE
<1>1. root \in Proc
  BY ProcAssumption
<1>2. /\ table = [p \in Proc |-> IF p = root THEN NewProcess(1) ELSE NoProcess]
      /\ pidMap = Pid \ {1} /\ pc = [p \in Proc |-> "user"]
  BY DEF Init
<1> HIDE DEF root
<1>3. NewProcess(1).pid = 1 /\ NoProcess.state = "Free" /\ NewProcess(1).state = "Ready"
  BY DEF NewProcess, NoProcess
<1>4. Live = {root} /\ table[root].pid = 1
  BY <1>1, <1>2, <1>3 DEF Live
<1>5. 1 \in Pid
  BY MaxPidAssumption DEF Pid
<1> QED
  BY <1>2, <1>4, <1>5 DEF PidUnique

LEMMA NextPidUnique ==
  ASSUME "reExec" \notin Habits, IInv, SafeInv, SafeInv', PidUnique, [Next]_vars
  PROVE  PidUnique'
<1>1. CASE UNCHANGED vars
  BY <1>1 DEF vars, PidUnique, Live
<1>2. CASE StartRoot \/ ContextSwitch
  BY <1>2, StartRootSafe, ContextSwitchSafe, ReapPids DEF StartRoot, ContextSwitch
<1>3. ASSUME NEW p \in Proc,
             \/ VforkWithoutPid(p) \/ VforkOutOfMemory(p) \/ RefusedCall(p) \/ ExitSpin(p)
      PROVE  PidUnique'
  <2>1. ObjectsKept
    BY <1>3, GateCallsSafe
  <2> QED
    BY <1>3, <2>1, CalmPids
       DEF VforkWithoutPid, VforkOutOfMemory, RefusedCall, ExitSpin
<1>4. ASSUME NEW p \in Proc, Exec(p) \/ EndFaults(p) \/ WaitpidSpin(p)
      PROVE  PidUnique'
  <2>1. ObjectsKept /\ UNCHANGED pc
    BY <1>4, ExecSafe, EndFaultsSafe, WaitpidSpinSafe DEF EndFaults, WaitpidSpin
  <2> QED
    BY <1>4, <2>1, CalmPids DEF Exec, EndFaults, WaitpidSpin
<1>5. ASSUME NEW p \in Proc, NEW n \in Pid, WaitpidUnknown(p, n) PROVE PidUnique'
  <2>1. ObjectsKept
    BY <1>5, WaitpidUnknownSafe
  <2> QED
    BY <1>5, <2>1, CalmPids DEF WaitpidUnknown
<1>6. ASSUME NEW p \in Proc, NEW l \in Location \ {"create"}, pc' = [pc EXCEPT ![p] = l],
             ObjectsKept, UNCHANGED pidMap,
             \A w \in Proc \ {p} : newPid'[w] = newPid[w]
      PROVE  PidUnique'
  <2>1. \A w \in Proc : pc'[w] = "create" => pc[w] = "create" /\ newPid'[w] = newPid[w]
    BY <1>6 DEF IInv, Others
  <2> QED
    BY <1>6, <2>1, CalmPids
<1>7. ASSUME NEW p \in Proc, NEW rc \in Code, Exit(p, rc) \/ Kill(p) PROVE PidUnique'
  <2>1. ObjectsKept /\ (UNCHANGED pc \/ pc' = [pc EXCEPT ![p] = "exit"])
    BY <1>7, ExitSafe, KillSafe
  <2>2. UNCHANGED <<pidMap, newPid>>
    BY <1>7 DEF Exit, Kill, Delete
  <2> QED
    BY <1>6, <2>1, <2>2, CalmPids DEF Location
<1>8. ASSUME NEW p \in Proc, NEW q \in Proc, WaitpidBegin(p, q) PROVE PidUnique'
  <2>1. ObjectsKept
    BY <1>8, WaitpidBeginSafe
  <2> QED
    BY <1>6, <1>8, <2>1 DEF WaitpidBegin, Location
<1>9. ASSUME NEW p \in Proc, WaitpidReturn(p) PROVE PidUnique'
  <2>1. ObjectsKept
    BY <1>9, WaitpidReturnSafe
  <2> QED
    BY <1>6, <1>9, <2>1 DEF WaitpidReturn, Location
<1>10. ASSUME NEW p \in Proc, CreateOutOfMemory(p) PROVE PidUnique'
  <2>1. ObjectsKept
    BY <1>10, CreateTakesSafe
  <2>2. \A w \in Proc \ {p} : newPid'[w] = newPid[w]
    BY <1>10 DEF CreateOutOfMemory, IInv, Others
  <2> QED
    BY <1>6, <1>10, <2>1, <2>2 DEF CreateOutOfMemory, Location
<1>11. ASSUME NEW p \in Proc, SystemCall(p) PROVE PidUnique'
  BY <1>3, <1>4, <1>5, <1>7, <1>8, <1>11, ExecsOnce, VforkPids, CreateTakePids,
     CodeAssumption DEF SystemCall
<1>12. ASSUME NEW p \in Proc, KernelStep(p) PROVE PidUnique'
  BY <1>3, <1>4, <1>9, <1>10, <1>12, CreateAppendPids DEF KernelStep
<1> QED
  BY <1>1, <1>2, <1>11, <1>12 DEF Next

(* As long as no program calls exec a second time, no two process objects  *)
(* or create_process calls hold the same pid, and get_next_pid offers no   *)
(* pid that is held.                                                       *)
THEOREM PidsAreUnique ==
  ASSUME "reExec" \notin Habits
  PROVE  Spec => []PidUnique
<1>1. IInv /\ SafeInv /\ SafeInv' /\ PidUnique /\ [Next]_vars => PidUnique'
  BY NextPidUnique
<1> QED
  BY <1>1, InitPids, SpecIInv, SpecSafeInv, PTL DEF Spec

-----------------------------------------------------------------------------
(* Without create_process and with enough memory no pid is lost.           *)
PidsHeld ==
  /\ \A p \in Proc : pc[p] # "create"
  /\ \A n \in Pid \ {MaxPid} : n \in pidMap \/ \E p \in Live : table[p].pid = n

(* A step that takes no pid.                                               *)
LEMMA CalmHeld ==
  ASSUME PidsHeld, ObjectsKept, pidMap' = pidMap,
         \A p \in Proc : pc'[p] # "create"
  PROVE  PidsHeld'
<1>1. Live' = Live /\ \A p \in Live : table'[p].pid = table[p].pid
  BY DEF ObjectsKept, Live
<1> QED
  BY <1>1 DEF PidsHeld

(* The pid vfork takes is held by the child.                               *)
LEMMA VforkHeld ==
  ASSUME IInv, SafeInv, PidsHeld, NEW p \in Proc, Vfork(p)
  PROVE  PidsHeld'
<1>1. PICK child \in FreeSlots :
        /\ pc' = [pc EXCEPT ![child] = "user"]
        /\ table'[child].pid = NextPid
        /\ table'[child].state = "Running"
        /\ SameOrigin(table[p], table'[p]) /\ table'[p].state = "Blocked"
        /\ \A w \in Proc \ {child, p} : Same(table[w], table'[w])
  BY VforkTable
<1>2. child \in Proc /\ child \notin Live
  BY <1>1 DEF Live, FreeSlots
<1>3. /\ \A w \in Live : w \in Live' /\ table'[w].pid = table[w].pid
      /\ child \in Live'
  BY <1>1, <1>2 DEF Live, Same, SameTies, SameOrigin
<1>4. pidMap' = pidMap \ {NextPid}
  BY DEF Vfork
<1>5. \A w \in Proc : pc'[w] # "create"
  BY <1>1, <1>2 DEF PidsHeld, IInv, Others
<1> QED
  BY <1>1, <1>3, <1>4, <1>5 DEF PidsHeld

(* The pid of a destroyed process is given back.                           *)
LEMMA ReapHeld ==
  ASSUME SafeInv, SafeInv', PidsHeld, Reap, DeadDestroyed, UNCHANGED pc
  PROVE  PidsHeld'
<1>1. /\ Live = Listed \cup Doomed /\ Live' = Listed
      /\ \A w \in Listed : table'[w].pid = table[w].pid
  BY DEF SafeInv, ListsInv, DeadDestroyed, SameTies
<1>2. pidMap' = pidMap \cup Released({table[w].pid : w \in Doomed})
  BY DEF Reap
<1>3. ASSUME NEW n \in Pid \ {MaxPid}
      PROVE  n \in pidMap' \/ \E w \in Live' : table'[w].pid = n
  <2>1. n > 0 /\ n < MaxPid
    BY MaxPidAssumption DEF Pid
  <2>2. CASE n \in pidMap
    BY <1>2, <2>2
  <2>3. ASSUME NEW w \in Live, table[w].pid = n
        PROVE  n \in pidMap' \/ \E v \in Live' : table'[v].pid = n
    <3>1. CASE w \in Listed
      BY <1>1, <2>3, <3>1
    <3>2. CASE w \in Doomed
      BY <1>2, <2>1, <2>3, <3>2 DEF Released
    <3> QED
      BY <1>1, <3>1, <3>2
  <2> QED
    BY <2>2, <2>3 DEF PidsHeld
<1> QED
  BY <1>3 DEF PidsHeld

LEMMA NextPidsHeld ==
  ASSUME Habits \cap {"create", "outOfMemory", "reExec"} = {},
         IInv, SafeInv, SafeInv', PidsHeld, [Next]_vars
  PROVE  PidsHeld'
<1>1. CASE UNCHANGED vars
  BY <1>1 DEF vars, PidsHeld, Live
<1>2. CASE StartRoot \/ ContextSwitch
  BY <1>2, StartRootSafe, ContextSwitchSafe, ReapHeld DEF StartRoot, ContextSwitch
<1>3. ASSUME NEW p \in Proc, NEW l \in Location \ {"create"},
             UNCHANGED pc \/ pc' = [pc EXCEPT ![p] = l],
             ObjectsKept, UNCHANGED pidMap
      PROVE  PidsHeld'
  <2>1. \A w \in Proc : pc'[w] # "create"
    BY <1>3 DEF PidsHeld, IInv, Others
  <2> QED
    BY <1>3, <2>1, CalmHeld
<1>4. /\ "user" \in Location \ {"create"} /\ "exit" \in Location \ {"create"}
      /\ "waitpid" \in Location \ {"create"}
  BY DEF Location
<1>5. ASSUME NEW p \in Proc, VforkWithoutPid(p) \/ RefusedCall(p) \/ ExitSpin(p)
      PROVE  PidsHeld'
  <2>1. ObjectsKept
    BY <1>5, GateCallsSafe
  <2> QED
    BY <1>3, <1>4, <1>5, <2>1 DEF VforkWithoutPid, RefusedCall, ExitSpin
<1>6. ASSUME NEW p \in Proc, Exec(p) \/ EndFaults(p) \/ WaitpidSpin(p)
      PROVE  PidsHeld'
  <2>1. ObjectsKept /\ UNCHANGED pc
    BY <1>6, ExecSafe, EndFaultsSafe, WaitpidSpinSafe DEF EndFaults, WaitpidSpin
  <2> QED
    BY <1>3, <1>4, <1>6, <2>1 DEF Exec, EndFaults, WaitpidSpin
<1>7. ASSUME NEW p \in Proc, NEW n \in Pid, WaitpidUnknown(p, n) PROVE PidsHeld'
  <2>1. ObjectsKept
    BY <1>7, WaitpidUnknownSafe
  <2> QED
    BY <1>3, <1>4, <1>7, <2>1 DEF WaitpidUnknown
<1>8. ASSUME NEW p \in Proc, NEW rc \in Code, Exit(p, rc) \/ Kill(p) PROVE PidsHeld'
  <2>1. ObjectsKept /\ (UNCHANGED pc \/ pc' = [pc EXCEPT ![p] = "exit"])
    BY <1>8, ExitSafe, KillSafe
  <2>2. UNCHANGED pidMap
    BY <1>8 DEF Exit, Kill, Delete
  <2> QED
    BY <1>3, <1>4, <2>1, <2>2
<1>9. ASSUME NEW p \in Proc, NEW q \in Proc, WaitpidBegin(p, q) PROVE PidsHeld'
  <2>1. ObjectsKept
    BY <1>9, WaitpidBeginSafe
  <2> QED
    BY <1>3, <1>4, <1>9, <2>1 DEF WaitpidBegin
<1>10. ASSUME NEW p \in Proc, WaitpidReturn(p) PROVE PidsHeld'
  <2>1. ObjectsKept
    BY <1>10, WaitpidReturnSafe
  <2> QED
    BY <1>3, <1>4, <1>10, <2>1 DEF WaitpidReturn
<1>11. ASSUME NEW p \in Proc
       PROVE  /\ ~VforkOutOfMemory(p) /\ ~CreateTakePid(p)
              /\ ~CreateAppend(p) /\ ~CreateOutOfMemory(p)
  BY DEF PidsHeld, VforkOutOfMemory, CreateTakePid, CreateAppend, CreateOutOfMemory, Executes
<1>12. ASSUME NEW p \in Proc, SystemCall(p) PROVE PidsHeld'
  BY <1>5, <1>6, <1>7, <1>8, <1>9, <1>11, <1>12, ExecsOnce, VforkHeld, CodeAssumption
     DEF SystemCall
<1>13. ASSUME NEW p \in Proc, KernelStep(p) PROVE PidsHeld'
  BY <1>5, <1>6, <1>10, <1>11, <1>13 DEF KernelStep
<1> QED
  BY <1>1, <1>2, <1>12, <1>13 DEF Next

LEMMA InitPidsHeld == Init => PidsHeld
<1> SUFFICES ASSUME Init PROVE PidsHeld
  OBVIOUS
<1> DEFINE root == CHOOSE p \in Proc : TRUE
<1>1. root \in Proc
  BY ProcAssumption
<1>2. /\ table = [p \in Proc |-> IF p = root THEN NewProcess(1) ELSE NoProcess]
      /\ pidMap = Pid \ {1} /\ pc = [p \in Proc |-> "user"]
  BY DEF Init
<1> HIDE DEF root
<1>3. NewProcess(1).pid = 1 /\ NewProcess(1).state = "Ready"
  BY DEF NewProcess, NoProcess
<1>4. root \in Live /\ table[root].pid = 1
  BY <1>1, <1>2, <1>3 DEF Live
<1> QED
  BY <1>2, <1>4 DEF PidsHeld

(* While programs do not call create_process nor exec a second time, and   *)
(* memory lasts, no pid is lost but the highest: whoever took it holds it  *)
(* until schedule_next gives it back.  The first and the last lose pids    *)
(* (the code leaves them taken), hence the hypothesis.                     *)
THEOREM NoPidIsLost ==
  ASSUME Habits \cap {"create", "outOfMemory", "reExec"} = {}
  PROVE  Spec => []PidsReturn
<1>1. IInv /\ SafeInv /\ SafeInv' /\ PidsHeld /\ [Next]_vars => PidsHeld'
  BY NextPidsHeld
<1>2. PidsHeld => PidsReturn
  BY DEF PidsHeld, PidsReturn
<1>3. Spec => []SafeInv
  BY SpecSafeInv
<1> QED
  BY <1>1, <1>2, <1>3, InitPidsHeld, SpecIInv, PTL DEF Spec

-----------------------------------------------------------------------------
(* The nesting counter.  Where no call leaves context switching blocked it *)
(* is one only in the loops at the end of delete_process and in waitpid,   *)
(* and only until the loop unblocks.                                       *)
GateHeld ==
  /\ mode = "boot" => gate.counter = 0
  /\ mode = "running" /\ gate.counter # 0 =>
       /\ gate.counter = 1
       /\ \/ pc[core] = "exit"
          \/ pc[core] = "waitpid" /\ table[core].state = "Blocked"

LEMMA GateSteps ==
  ASSUME NEW g, GateOK(g)
  PROVE  /\ g.counter = 0 => Block(g).counter = 1 /\ Unblock(Block(g)).counter = 0
         /\ g.counter =< 1 => Unblock(g).counter = 0
<1>1. g.counter \in Nat
  BY DEF GateOK, Gate
<1>2. g.counter = 0 => Block(g).counter = 1
  BY DEF Block
<1>3. \A h : h.counter \in Nat /\ h.counter =< 1 => Unblock(h).counter = 0
  <2> SUFFICES ASSUME NEW h, h.counter \in Nat, h.counter =< 1
               PROVE  Unblock(h).counter = 0
    OBVIOUS
  <2>1. (IF h.counter - 1 < 0 THEN 0 ELSE h.counter - 1) = 0
    OBVIOUS
  <2>2. Unblock(h).counter = IF h.counter - 1 < 0 THEN 0 ELSE h.counter - 1
    BY DEF Unblock
  <2> QED
    BY <2>1, <2>2
<1> QED
  BY <1>1, <1>2, <1>3

LEMMA NextGateHeld ==
  ASSUME Habits \cap {"lateWait", "badCall", "outOfMemory", "reExec"} = {},
         IInv, SafeInv, GateHeld, [Next]_vars
  PROVE  GateHeld'
<1>1. GateOK(gate) /\ gate.counter \in Nat
  BY DEF IInv, GateOK, Gate
<1>2. CASE UNCHANGED vars
  BY <1>2 DEF vars, GateHeld
<1>3. CASE StartRoot \/ ContextSwitch
  <2>1. gate.counter = 0 /\ gate' = gate
    BY <1>1, <1>3 DEF StartRoot, ContextSwitch, GateHeld, GateOK
  <2> QED
    BY <2>1 DEF GateHeld
<1>4. ASSUME NEW p \in Proc, NEW l \in {"user", "create"}, Executes(p, l)
      PROVE  gate.counter = 0
  BY <1>4 DEF GateHeld, Executes
<1>5. ASSUME NEW p \in Proc,
             Vfork(p) \/ VforkWithoutPid(p) \/ Exec(p) \/ CreateAppend(p)
      PROVE  gate'.counter = 0
  <2>1. gate.counter = 0
    BY <1>4, <1>5 DEF Vfork, VforkWithoutPid, Exec, CreateAppend
  <2>2. GateOK(Block(gate)) /\ GateOK(Unblock(Block(gate)))
    BY <1>1, BlockOK, UnblockOK
  <2>3. Unblock(Block(gate)).counter = 0 /\ Unblock(Unblock(Block(gate))).counter = 0
    BY <1>1, <2>1, <2>2, GateSteps
  <2> QED
    BY <1>5, <2>3 DEF Vfork, VforkWithoutPid, Exec, CreateAppend
<1>6. ASSUME NEW p \in Proc, CreateTakePid(p) \/ CreateOutOfMemory(p)
      PROVE  gate'.counter = 0
  BY <1>4, <1>6 DEF CreateTakePid, CreateOutOfMemory
<1>7. ASSUME NEW p \in Proc, ExitSpin(p) \/ WaitpidSpin(p)
      PROVE  gate'.counter = 0
  <2>1. gate.counter =< 1
    BY <1>1, <1>7 DEF GateHeld, ExitSpin, WaitpidSpin, Executes
  <2> QED
    BY <1>1, <1>7, <2>1, GateSteps DEF ExitSpin, WaitpidSpin
<1>8. ASSUME NEW p \in Proc, WaitpidReturn(p) PROVE gate'.counter = 0
  BY <1>8 DEF GateHeld, WaitpidReturn, Executes
<1>9. ASSUME NEW p \in Proc, EndFaults(p) PROVE GateHeld'
  BY <1>9 DEF GateHeld, EndFaults, EndFault
<1>10. ASSUME NEW p \in Proc, NEW rc \in Code, Exit(p, rc) \/ Kill(p) PROVE GateHeld'
  <2>1. PICK t, c : Delete(t, p, c) /\ Executes(p, "user")
    BY <1>10 DEF Exit, Kill, MayEnd
  <2>2. /\ gate.counter = 0 /\ Block(gate).counter = 1
        /\ Unblock(Block(gate)).counter = 0
    BY <1>1, <1>4, <2>1, GateSteps
  <2>3. CASE gate' = Unblock(Block(gate))
    BY <2>2, <2>3 DEF GateHeld
  <2>4. CASE gate' = Block(gate) /\ pc' = [pc EXCEPT ![p] = "exit"] /\ UNCHANGED core
    <3>1. core' = p /\ pc'[p] = "exit" /\ mode' = "running"
      <4>1. core = p /\ mode' = mode /\ mode = "running"
        BY <2>1 DEF Executes, Delete
      <4>2. pc'[p] = "exit"
        BY <2>4 DEF IInv, Others
      <4> QED
        BY <2>4, <4>1, <4>2
    <3>2. gate'.counter = 1
      BY <2>2, <2>4
    <3> QED
      BY <3>1, <3>2 DEF GateHeld
  <2> QED
    BY <2>1, <2>3, <2>4 DEF Delete
<1>11. ASSUME NEW p \in Proc, NEW q \in Proc, WaitpidBegin(p, q) PROVE GateHeld'
  <2>1. gate.counter = 0 /\ gate' = Block(gate) /\ Block(gate).counter = 1
    BY <1>1, <1>4, <1>11, GateSteps DEF WaitpidBegin
  <2>2. /\ core' = p /\ pc'[p] = "waitpid" /\ mode' = "running"
        /\ table' = WaitForProcess(table, p, q, "waitpid")
    BY <1>11 DEF WaitpidBegin, Executes, IInv, Others
  <2>3. table[p].state # "Terminated"
    BY <1>11, Executing DEF WaitpidBegin, Location
  <2>4. /\ table'[p].blockedBy = table[p].blockedBy \cup {q}
        /\ table'[p].state = StateOf(table[p].state, table'[p].blockedBy)
    BY <2>2, Types, WaitForProcessFields DEF UnblockAction
  <2>5. table'[p].state = "Blocked"
    BY <2>3, <2>4 DEF StateOf
  <2> QED
    BY <2>1, <2>2, <2>5 DEF GateHeld
<1>12. ASSUME NEW p \in Proc, NEW n \in Pid
       PROVE  ~VforkOutOfMemory(p) /\ ~RefusedCall(p) /\ ~WaitpidUnknown(p, n)
  BY DEF VforkOutOfMemory, RefusedCall, WaitpidUnknown
<1>13. gate'.counter = 0 => GateHeld'
  BY DEF GateHeld
<1>14. ASSUME NEW p \in Proc, SystemCall(p) PROVE GateHeld'
  BY <1>5, <1>6, <1>9, <1>10, <1>11, <1>12, <1>13, <1>14, ExecsOnce, CodeAssumption,
     MaxPidAssumption DEF SystemCall, Pid
<1>15. ASSUME NEW p \in Proc, KernelStep(p) PROVE GateHeld'
  BY <1>5, <1>6, <1>7, <1>8, <1>13, <1>15 DEF KernelStep
<1> QED
  BY <1>2, <1>3, <1>14, <1>15 DEF Next

(* While no call fails, waitpid names processes that exist and nobody      *)
(* calls exec a second time, a program never runs with context switching   *)
(* blocked: every handler unblocks as often as it blocks.  The paths the   *)
(* hypothesis excludes do not.                                             *)
THEOREM ProgramsArePreemptible ==
  ASSUME Habits \cap {"lateWait", "badCall", "outOfMemory", "reExec"} = {}
  PROVE  Spec => []UserCodeIsPreemptible
<1>1. IInv /\ SafeInv /\ GateHeld /\ [Next]_vars => GateHeld'
  BY NextGateHeld
<1>2. Init => GateHeld
  BY DEF Init, GateHeld
<1>3. IInv /\ GateHeld => UserCodeIsPreemptible
  BY DEF IInv, GateOK, GateHeld, UserCodeIsPreemptible
<1>4. Spec => []SafeInv
  BY SpecSafeInv
<1> QED
  BY <1>1, <1>2, <1>3, <1>4, SpecIInv, PTL DEF Spec

-----------------------------------------------------------------------------
(* Parents and children.  Where nobody leaves children behind, every       *)
(* parent is in the list, before its children.  If waitpid names children  *)
(* only, nobody waits for anyone else; and only create_process makes       *)
(* processes without parent.                                               *)
ElderFirst(list, t) ==
  \A i, j \in DOMAIN list : t[list[j]].parent = list[i] => i < j
ParentsWait(t) == \A p, q \in Proc : q \in t[p].blockedBy => t[q].parent = p
OneRoot(members, t) ==
  \A p, q \in members : t[p].parent = Null /\ t[q].parent = Null => p = q

Kin ==
  /\ \A q \in Listed : table[q].parent \in Listed \cup {Null}
  /\ ElderFirst(processes, table)
  /\ "strangerWait" \notin Habits => ParentsWait(table)
  /\ "create" \notin Habits => OneRoot(Listed, table)

(* Without that habit nobody is within create_process.                     *)
NobodyCreates == "create" \notin Habits => \A p \in Proc : pc[p] # "create"

LEMMA NextNobodyCreates ==
  ASSUME IInv, NobodyCreates, [Next]_vars
  PROVE  NobodyCreates'
<1> SUFFICES ASSUME "create" \notin Habits, \A p \in Proc : pc[p] # "create"
             PROVE  \A p \in Proc : pc'[p] # "create"
  BY DEF NobodyCreates
<1>1. ASSUME NEW p, NEW l \in {"user", "exit", "waitpid"},
             UNCHANGED pc \/ pc' = [pc EXCEPT ![p] = l]
      PROVE  \A w \in Proc : pc'[w] # "create"
  BY <1>1 DEF IInv, Others
<1>2. CASE UNCHANGED vars
  BY <1>2 DEF vars
<1>3. CASE StartRoot \/ ContextSwitch
  BY <1>3 DEF StartRoot, ContextSwitch
<1>4. ASSUME NEW p \in Proc, NEW rc, Exit(p, rc) \/ Kill(p)
      PROVE  \E w, l : l \in {"user", "exit"} /\ pc' = [pc EXCEPT ![w] = l]
  BY <1>4 DEF Exit, Kill, Delete
<1>5. ASSUME NEW p \in Proc, Vfork(p)
      PROVE  \E child \in Proc : pc' = [pc EXCEPT ![child] = "user"]
  BY <1>5 DEF Vfork, FreeSlots
<1>6. ASSUME NEW p \in Proc,
             \/ VforkWithoutPid(p) \/ VforkOutOfMemory(p) \/ Exec(p) \/ ReExec(p)
             \/ ExecFaults(p) \/ RefusedCall(p) \/ EndFaults(p)
      PROVE  UNCHANGED pc \/ \E w : pc' = [pc EXCEPT ![w] = "user"]
  BY <1>6 DEF VforkWithoutPid, VforkOutOfMemory, Exec, ReExec, ExecFaults, RefusedCall,
              EndFaults
<1>7. ASSUME NEW p \in Proc, NEW q \in Proc, WaitpidBegin(p, q)
      PROVE  pc' = [pc EXCEPT ![p] = "waitpid"]
  BY <1>7 DEF WaitpidBegin
<1>8. ASSUME NEW p \in Proc, NEW n \in Pid, WaitpidUnknown(p, n)
      PROVE  UNCHANGED pc
  BY <1>8 DEF WaitpidUnknown
<1>9. ASSUME NEW p \in Proc
      PROVE  ~CreateTakePid(p) /\ ~CreateAppend(p) /\ ~CreateOutOfMemory(p)
  BY DEF CreateTakePid, CreateAppend, CreateOutOfMemory, Executes
<1>10. ASSUME NEW p \in Proc, ExitSpin(p) \/ WaitpidSpin(p) \/ WaitpidReturn(p)
       PROVE  UNCHANGED pc \/ pc' = [pc EXCEPT ![p] = "user"]
  BY <1>10 DEF ExitSpin, WaitpidSpin, WaitpidReturn
<1>11. ASSUME NEW p \in Proc, SystemCall(p) PROVE \A w \in Proc : pc'[w] # "create"
  BY <1>1, <1>4, <1>5, <1>6, <1>7, <1>8, <1>9, <1>11 DEF SystemCall
<1>12. ASSUME NEW p \in Proc, KernelStep(p) PROVE \A w \in Proc : pc'[w] # "create"
  BY <1>1, <1>9, <1>10, <1>12 DEF KernelStep
<1> QED
  BY <1>2, <1>3, <1>11, <1>12 DEF Next

(* A new process that is nobody's parent goes to the end.                  *)
LEMMA ElderAppend ==
  ASSUME NEW list \in Seq(Proc), NEW x \in Proc, x \notin ToSet(list),
         NEW t, NEW u, ElderFirst(list, t), u[x].parent # x,
         \A w \in ToSet(list) : u[w].parent = t[w].parent /\ t[w].parent # x
  PROVE  ElderFirst(Append(list, x), u)
<1> DEFINE longer == Append(list, x)
<1>1. /\ longer \in Seq(Proc) /\ Len(longer) = Len(list) + 1
      /\ \A i \in 1..Len(list) : longer[i] = list[i]
      /\ longer[Len(list) + 1] = x
  BY AppendProperties
<1> HIDE DEF longer
<1>2. /\ Len(list) \in Nat /\ DOMAIN list = 1..Len(list)
      /\ DOMAIN longer = 1..Len(list) + 1
  BY <1>1, LenProperties
<1>3. \A i \in 1..Len(list) : list[i] \in ToSet(list)
  BY Elements
<1>4. ASSUME NEW i \in DOMAIN longer, NEW j \in DOMAIN longer,
             u[longer[j]].parent = longer[i]
      PROVE  i < j
  <2>1. CASE j \in 1..Len(list) /\ i \in 1..Len(list)
    BY <1>1, <1>2, <1>3, <1>4, <2>1 DEF ElderFirst
  <2>2. CASE j \in 1..Len(list) /\ i = Len(list) + 1
    BY <1>1, <1>3, <1>4, <2>2
  <2>3. CASE j = Len(list) + 1
    <3>1. i # Len(list) + 1
      BY <1>1, <1>4, <2>3
    <3> QED
      BY <1>2, <2>3, <3>1
  <2> QED
    BY <1>2, <2>1, <2>2, <2>3
<1> QED
  BY <1>4 DEF ElderFirst, longer

(* Those who stay keep their order.                                        *)
LEMMA ElderRemove ==
  ASSUME NEW list \in Seq(Proc), NEW p \in ToSet(list),
         NEW t, NEW u, ElderFirst(list, t), \A w \in Proc : u[w].parent = t[w].parent
  PROVE  ElderFirst(RemoveAt(list, Position(list, p)), u)
<1> DEFINE k == Position(list, p)
           rest == RemoveAt(list, k)
           old(i) == IF i < k THEN i ELSE i + 1
<1>1. /\ Len(list) \in Nat /\ DOMAIN list = 1..Len(list) /\ k \in 1..Len(list)
  BY Elements DEF Position
<1> HIDE DEF k
<1>2. /\ rest \in Seq(Proc) /\ Len(rest) = Len(list) - 1
      /\ \A i \in 1..Len(list) - 1 : rest[i] = list[old(i)]
  BY <1>1, RemoveAtPlaces
<1> HIDE DEF rest
<1>3. DOMAIN rest = 1..Len(list) - 1
  BY <1>2, LenProperties
<1>4. \A i \in 1..Len(list) - 1 : old(i) \in 1..Len(list)
  BY <1>1
<1>5. \A i, j \in 1..Len(list) - 1 : old(i) < old(j) => i < j
  BY <1>1
<1> HIDE DEF old
<1>6. \A i \in 1..Len(list) : list[i] \in Proc
  BY ElementOfSeq
<1>7. ASSUME NEW i \in DOMAIN rest, NEW j \in DOMAIN rest, u[rest[j]].parent = rest[i]
      PROVE  i < j
  <2>1. t[list[old(j)]].parent = list[old(i)]
    BY <1>2, <1>3, <1>4, <1>6, <1>7
  <2>2. old(i) < old(j)
    BY <1>1, <1>3, <1>4, <2>1 DEF ElderFirst
  <2> QED
    BY <1>3, <1>5, <2>2
<1> QED
  BY <1>7 DEF ElderFirst, rest, k

(* A step that neither makes nor ends a process, nor makes one wait.       *)
LEMMA CalmKin ==
  ASSUME IInv, Kin, ObjectsKept, NoNewWaits, UNCHANGED processes
  PROVE  Kin'
<1>1. Listed' = Listed /\ \A i \in DOMAIN processes : processes[i] \in Proc
  BY Types, Elements DEF Listed
<1>2. \A w \in Proc : /\ table'[w].parent = table[w].parent
                      /\ table'[w].blockedBy \subseteq table[w].blockedBy
  BY DEF ObjectsKept, NoNewWaits
<1>3. ElderFirst(processes', table')
  BY <1>1, <1>2 DEF Kin, ElderFirst
<1>4. ParentsWait(table) => ParentsWait(table')
  BY <1>2 DEF ParentsWait
<1>5. OneRoot(Listed, table) => OneRoot(Listed', table')
  BY <1>1, <1>2, Types DEF OneRoot
<1> QED
  BY <1>1, <1>2, <1>3, <1>4, <1>5, Types DEF Kin

LEMMA VforkKin ==
  ASSUME IInv, SafeInv, Kin, NEW p \in Proc, Vfork(p)
  PROVE  Kin'
<1>1. PICK child \in FreeSlots :
        /\ processes' = Append(processes, child)
        /\ table'[child].parent = p /\ table'[child].blockedBy = {}
        /\ SameOrigin(table[p], table'[p]) /\ table'[p].blockedBy = {child}
        /\ \A w \in Proc \ {child, p} : Same(table[w], table'[w])
  BY VforkTable
<1>2. p \in Listed /\ child \in Proc /\ child \notin Listed /\ child # p /\ child # Null
  BY <1>1, Executing, NullAssumption DEF Vfork, Location, FreeSlots, SafeInv, ListsInv, Live
<1>3. Listed' = Listed \cup {child}
  BY <1>1, <1>2, Types, AppendElements DEF Listed
<1>4. \A w \in Listed : /\ w \in Proc \ {child} /\ table'[w].parent = table[w].parent
                        /\ table[w].parent \in Listed \cup {Null}
  BY <1>1, <1>2, Types DEF Kin, Same, SameTies, SameOrigin
<1>5. \A q \in Listed' : table'[q].parent \in Listed' \cup {Null}
  BY <1>1, <1>2, <1>3, <1>4
<1>6. ASSUME ParentsWait(table), NEW w \in Proc, NEW q \in Proc, q \in table'[w].blockedBy
      PROVE  table'[q].parent = w
  <2>1. CASE w \in {child, p}
    BY <1>1, <1>6, <2>1
  <2>2. CASE w \notin {child, p}
    <3>1. q \in table[w].blockedBy /\ table[q].parent = w
      BY <1>1, <1>6, <2>2 DEF Same, SameTies, ParentsWait
    <3>2. q # child
      BY <1>2, <3>1 DEF SafeInv, WaitsInv, WaitersKnown
    <3> QED
      BY <1>1, <3>1, <3>2 DEF Same, SameTies, SameOrigin
  <2> QED
    BY <2>1, <2>2
<1>7. ElderFirst(processes', table')
  <2>1. /\ processes \in Seq(Proc) /\ child \notin ToSet(processes)
        /\ ElderFirst(processes, table) /\ table'[child].parent # child
        /\ \A w \in ToSet(processes) :
             table'[w].parent = table[w].parent /\ table[w].parent # child
    BY <1>1, <1>2, <1>4, Types DEF Listed, Kin
  <2> QED
    BY <1>1, <1>2, <2>1, ElderAppend
<1>8. ParentsWait(table) => ParentsWait(table')
  BY <1>6 DEF ParentsWait
<1>9. OneRoot(Listed, table) => OneRoot(Listed', table')
  <2>1. p # Null
    BY NullAssumption
  <2> QED
    BY <1>1, <1>3, <1>4, <2>1 DEF OneRoot
<1> QED
  BY <1>5, <1>7, <1>8, <1>9 DEF Kin

LEMMA CreateAppendKin ==
  ASSUME IInv, SafeInv, Kin, NobodyCreates, NEW p \in Proc, CreateAppend(p)
  PROVE  Kin'
<1>1. PICK q \in FreeSlots :
        /\ table' = [table EXCEPT ![q] = NewProcess(newPid[p])]
        /\ processes' = Append(processes, q)
  BY DEF CreateAppend
<1>2. q \in Proc /\ q \notin Listed /\ q # Null
  BY <1>1, NullAssumption DEF FreeSlots, SafeInv, ListsInv, Live
<1>3. /\ table'[q].parent = Null /\ table'[q].blockedBy = {}
      /\ \A w \in Proc \ {q} : table'[w] = table[w]
  BY <1>1, <1>2, Types DEF Table, NewProcess, NoProcess
<1>4. Listed' = Listed \cup {q}
  BY <1>1, <1>2, Types, AppendElements DEF Listed
<1>5. \A w \in Listed : /\ w \in Proc \ {q} /\ table'[w].parent = table[w].parent
                        /\ table[w].parent \in Listed \cup {Null}
  BY <1>2, <1>3, Types DEF Kin
<1>6. ASSUME ParentsWait(table), NEW v \in Proc, NEW w \in Proc, w \in table'[v].blockedBy
      PROVE  table'[w].parent = v
  <2>1. v # q /\ w \in table[v].blockedBy /\ table[w].parent = v
    BY <1>3, <1>6 DEF ParentsWait
  <2>2. w # q
    BY <1>2, <2>1 DEF SafeInv, WaitsInv, WaitersKnown
  <2> QED
    BY <1>3, <2>1, <2>2
<1>7. ElderFirst(processes', table')
  <2>1. /\ processes \in Seq(Proc) /\ q \notin ToSet(processes)
        /\ ElderFirst(processes, table) /\ table'[q].parent # q
        /\ \A w \in ToSet(processes) :
             table'[w].parent = table[w].parent /\ table[w].parent # q
    BY <1>2, <1>3, <1>5, Types DEF Listed, Kin
  <2> QED
    BY <1>1, <1>2, <2>1, ElderAppend
<1>8. ParentsWait(table) => ParentsWait(table')
  BY <1>6 DEF ParentsWait
<1>9. "create" \in Habits
  BY DEF NobodyCreates, CreateAppend, Executes
<1> QED
  BY <1>3, <1>4, <1>5, <1>7, <1>8, <1>9 DEF Kin

(* Who ends leaves no children.                                            *)
LEMMA EndKin ==
  ASSUME "orphans" \notin Habits, IInv, SafeInv, Kin,
         NEW p \in Proc, NEW rc \in Code, Exit(p, rc) \/ Kill(p)
  PROVE  Kin'
<1>1. ObjectsKept /\ NoNewWaits
  BY ExitSafe, KillSafe
<1>2. /\ p \in Listed /\ Children(p) = {}
      /\ processes' = RemoveAt(processes, Position(processes, p))
  BY DEF Exit, Kill, MayEnd, Delete, Listed
<1>3. Listed' = Listed \ {p}
  BY <1>2, Types, RemovedElements DEF Listed, SafeInv, ListsInv
<1>4. \A w \in Listed : table[w].parent # p
  BY <1>2 DEF Children, Listed
<1>5. \A w \in Proc : /\ table'[w].parent = table[w].parent
                      /\ table'[w].blockedBy \subseteq table[w].blockedBy
  BY <1>1 DEF ObjectsKept, NoNewWaits
<1>6. ElderFirst(processes', table')
  BY <1>2, <1>5, Types, ElderRemove DEF Kin, Listed
<1>7. ParentsWait(table) => ParentsWait(table')
  BY <1>5 DEF ParentsWait
<1>8. OneRoot(Listed, table) => OneRoot(Listed', table')
  BY <1>3, <1>5, Types DEF OneRoot
<1> QED
  BY <1>3, <1>4, <1>5, <1>6, <1>7, <1>8, Types DEF Kin

(* waitpid names a child, unless strangers may be waited for.              *)
LEMMA WaitpidBeginKin ==
  ASSUME IInv, SafeInv, Kin, NEW p \in Proc, NEW q \in Proc, WaitpidBegin(p, q)
  PROVE  Kin'
<1>1. /\ "strangerWait" \in Habits \/ table[q].parent = p
      /\ processes' = processes /\ Listed' = Listed
      /\ table' = WaitForProcess(table, p, q, "waitpid")
  BY DEF WaitpidBegin, Listed
<1>2. \A w \in Proc :
        /\ SameOrigin(table[w], table'[w])
        /\ w = p => table'[w].blockedBy = table[w].blockedBy \cup {q}
        /\ w # p => table'[w].blockedBy = table[w].blockedBy
  BY <1>1, Types, WaitForProcessFields DEF UnblockAction
<1>3. \A w \in Proc : table'[w].parent = table[w].parent
  BY <1>2 DEF SameOrigin
<1>4. ElderFirst(processes', table')
  <2>1. \A i \in DOMAIN processes : processes[i] \in Proc
    BY Types, Elements
  <2> QED
    BY <1>1, <1>3, <2>1 DEF Kin, ElderFirst
<1>5. ParentsWait(table) /\ table[q].parent = p => ParentsWait(table')
  BY <1>2, <1>3 DEF ParentsWait
<1>6. OneRoot(Listed, table) => OneRoot(Listed', table')
  BY <1>1, <1>3, Types DEF OneRoot
<1> QED
  BY <1>1, <1>3, <1>4, <1>5, <1>6, Types DEF Kin

LEMMA ReapKin ==
  ASSUME IInv, SafeInv', Kin, DeadDestroyed, UNCHANGED processes
  PROVE  Kin'
<1>1. Listed' = Listed /\ \A w \in Listed : SameTies(table[w], table'[w]) /\ w \in Proc
  BY Types DEF DeadDestroyed
<1>2. ASSUME ParentsWait(table), NEW v \in Proc, NEW w \in Proc, w \in table'[v].blockedBy
      PROVE  table'[w].parent = v
  <2>1. v \in Listed /\ w \in Listed
    BY <1>1, <1>2 DEF SafeInv, WaitsInv, WaitersKnown
  <2> QED
    BY <1>1, <1>2, <2>1 DEF SameTies, ParentsWait
<1>3. ElderFirst(processes', table')
  <2>1. \A i \in DOMAIN processes : processes[i] \in Listed
    BY Types, Elements DEF Listed
  <2> QED
    BY <1>1, <2>1 DEF Kin, ElderFirst, SameTies
<1>4. ParentsWait(table) => ParentsWait(table')
  BY <1>2 DEF ParentsWait
<1>5. OneRoot(Listed, table) => OneRoot(Listed', table')
  BY <1>1 DEF OneRoot, SameTies
<1> QED
  BY <1>1, <1>3, <1>4, <1>5 DEF Kin, SameTies

LEMMA NextKin ==
  ASSUME Habits \cap {"orphans", "reExec"} = {},
         IInv, SafeInv, SafeInv', Kin, NobodyCreates, [Next]_vars
  PROVE  Kin'
<1>1. CASE UNCHANGED vars
  BY <1>1 DEF vars, Kin, ElderFirst, Listed
<1>2. CASE StartRoot \/ ContextSwitch
  BY <1>2, StartRootSafe, ContextSwitchSafe, ReapKin DEF StartRoot, ContextSwitch
<1>3. ASSUME NEW p \in Proc,
             \/ VforkWithoutPid(p) \/ VforkOutOfMemory(p) \/ RefusedCall(p) \/ ExitSpin(p)
      PROVE  Kin'
  <2>1. ObjectsKept /\ NoNewWaits
    BY <1>3, GateCallsSafe
  <2> QED
    BY <1>3, <2>1, CalmKin
       DEF VforkWithoutPid, VforkOutOfMemory, RefusedCall, ExitSpin
<1>4. ASSUME NEW p \in Proc, Exec(p) \/ EndFaults(p) PROVE Kin'
  <2>1. ObjectsKept /\ NoNewWaits
    BY <1>4, ExecSafe, EndFaultsSafe
  <2> QED
    BY <1>4, <2>1, CalmKin DEF Exec, EndFaults
<1>5. ASSUME NEW p \in Proc, NEW n \in Pid, WaitpidUnknown(p, n) PROVE Kin'
  <2>1. ObjectsKept /\ NoNewWaits
    BY <1>5, WaitpidUnknownSafe
  <2> QED
    BY <1>5, <2>1, CalmKin DEF WaitpidUnknown
<1>6. ASSUME NEW p \in Proc, WaitpidSpin(p) \/ WaitpidReturn(p) PROVE Kin'
  <2>1. ObjectsKept /\ NoNewWaits
    BY <1>6, WaitpidSpinSafe, WaitpidReturnSafe
  <2> QED
    BY <1>6, <2>1, CalmKin DEF WaitpidSpin, WaitpidReturn
<1>7. ASSUME NEW p \in Proc, CreateTakePid(p) \/ CreateOutOfMemory(p) PROVE Kin'
  <2>1. ObjectsKept /\ NoNewWaits
    BY <1>7, CreateTakesSafe
  <2> QED
    BY <1>7, <2>1, CalmKin DEF CreateTakePid, CreateOutOfMemory
<1>8. ASSUME NEW p \in Proc, SystemCall(p) PROVE Kin'
  BY <1>3, <1>4, <1>5, <1>7, <1>8, ExecsOnce, VforkKin, EndKin, WaitpidBeginKin,
     CodeAssumption DEF SystemCall
<1>9. ASSUME NEW p \in Proc, KernelStep(p) PROVE Kin'
  BY <1>3, <1>6, <1>7, <1>9, CreateAppendKin DEF KernelStep
<1> QED
  BY <1>1, <1>2, <1>8, <1>9 DEF Next

LEMMA InitKin == Init => Kin
<1> SUFFICES ASSUME Init PROVE Kin
  OBVIOUS
<1> DEFINE root == CHOOSE p \in Proc : TRUE
<1>1. root \in Proc
  BY ProcAssumption
<1>2. /\ table = [p \in Proc |-> IF p = root THEN NewProcess(1) ELSE NoProcess]
      /\ processes = <<root>>
  BY DEF Init
<1> HIDE DEF root
<1>3. /\ NewProcess(1).parent = Null /\ NewProcess(1).blockedBy = {}
      /\ NoProcess.blockedBy = {}
  BY DEF NewProcess, NoProcess
<1>4. Listed = {root} /\ table[root].parent = Null /\ root # Null
  BY <1>1, <1>2, <1>3, NullAssumption DEF Listed, ToSet
<1>5. \A w \in Proc : table[w].blockedBy = {}
  BY <1>2, <1>3
<1>6. ElderFirst(processes, table)
  BY <1>2, <1>4 DEF ElderFirst
<1>7. ParentsWait(table) /\ OneRoot(Listed, table)
  BY <1>4, <1>5 DEF ParentsWait, OneRoot
<1> QED
  BY <1>4, <1>6, <1>7 DEF Kin

LEMMA SpecKin == ASSUME Habits \cap {"orphans", "reExec"} = {} PROVE Spec => []Kin
<1>1. Init => NobodyCreates
  BY DEF Init, NobodyCreates
<1>2. IInv /\ NobodyCreates /\ [Next]_vars => NobodyCreates'
  BY NextNobodyCreates
<1>3. IInv /\ SafeInv /\ SafeInv' /\ Kin /\ NobodyCreates /\ [Next]_vars => Kin'
  BY NextKin
<1>4. Spec => []SafeInv
  BY SpecSafeInv
<1> QED
  BY <1>1, <1>2, <1>3, <1>4, InitKin, SpecIInv, PTL DEF Spec

LEMMA RunnableFromKin ==
  "strangerWait" \notin Habits /\ IInv /\ SafeInv /\ Kin => SomebodyCanRun
<1> SUFFICES ASSUME "strangerWait" \notin Habits, IInv, SafeInv, Kin,
                    mode = "running", processes # <<>>
             PROVE  \E p \in Listed : table[p].state # "Blocked"
  BY DEF SomebodyCanRun, Listed
<1> DEFINE n    == Len(processes)
           last == processes[n]
<1>1. n \in 1..n /\ DOMAIN processes = 1..n
  BY Types, Elements, EmptySeq
<1>2. last \in Listed /\ last \in Proc
  BY <1>1, Types, Elements DEF Listed
<1>3. ASSUME NEW q \in table[last].blockedBy PROVE FALSE
  <2>1. q \in Proc
    BY <1>2, Types DEF Process
  <2>2. q \in Listed /\ table[q].parent = last
    BY <1>2, <2>1 DEF SafeInv, WaitsInv, WaitersKnown, Kin, ParentsWait
  <2>3. PICK j \in 1..n : processes[j] = q
    BY <2>2, Types, Elements DEF Listed
  <2>4. n < j
    BY <1>1, <2>2, <2>3 DEF Kin, ElderFirst
  <2> QED
    BY <1>1, <2>3, <2>4
<1>4. table[last].state # "Blocked"
  BY <1>2, <1>3 DEF SafeInv, InOrder, StatesInv
<1> QED
  BY <1>2, <1>4

(* As long as nobody leaves children behind or calls exec a second time    *)
(* and waitpid names children only, waiting never deadlocks: the youngest  *)
(* process of the list waits for nobody.  (Two strangers may wait for each *)
(* other.)                                                                 *)
THEOREM WaitingNeverDeadlocks ==
  ASSUME Habits \cap {"orphans", "reExec", "strangerWait"} = {}
  PROVE  Spec => []SomebodyCanRun
<1>1. Spec => []Kin
  BY SpecKin
<1>2. IInv /\ SafeInv /\ Kin => SomebodyCanRun
  BY RunnableFromKin
<1>3. Spec => []SafeInv
  BY SpecSafeInv
<1> QED
  BY <1>1, <1>2, <1>3, SpecIInv, PTL

-----------------------------------------------------------------------------
(* The kernel that boots has a process to start; one that runs follows no  *)
(* dangling parent, and switches only to a process it has chosen.          *)
FaultFree ==
  /\ mode \in {"boot", "running", "main"}
  /\ mode = "boot" =>
       scheduler.current = Null /\ \E n \in Listed : table[n].state = "Ready"

(* schedule_next finds a ready process when there is no current one.       *)
LEMMA ReadyIsFound ==
  ASSUME IInv, SafeInv, scheduler.current = Null,
         NEW n \in Listed, table[n].state = "Ready"
  PROVE  ScheduleNextProcess.action \in {"Switch", "StoreAndSwitch"}
<1> DEFINE s     == RemoveProcesses(scheduler, Doomed)
           ready == {i \in DOMAIN processes : Survivors[processes[i]].state = "Ready"}
<1>1. s.current = Null
  BY DEF RemoveProcesses
<1>2. processes # <<>> /\ Null \notin ToSet(processes)
  BY Types, NullAssumption DEF Listed, ToSet
<1>3. SearchOrder(processes, s.current) = processes
  BY <1>1, <1>2 DEF SearchOrder
<1>4. Survivors[n].state = "Ready"
  BY Types DEF Survivors, SafeInv, ListsInv
<1>5. PICK i \in DOMAIN processes : processes[i] = n
  BY DEF Listed, ToSet
<1>6. ready # {}
  BY <1>4, <1>5
<1>7. ScheduleNextProcess = ScheduleNext(s, Survivors, processes)
  BY <1>2 DEF ScheduleNextProcess
<1> HIDE DEF s
<1>8. ScheduleNextProcess.action = SwitchAction(s, Survivors)
  BY <1>3, <1>6, <1>7 DEF ScheduleNext
<1> QED
  BY <1>8 DEF SwitchAction

(* A switch that was decided on has somewhere to go.                       *)
LEMMA SwitchHasTarget ==
  ASSUME IInv, SafeInv, mode \in {"boot", "running"},
         ScheduleNextProcess.action \in {"Switch", "StoreAndSwitch"},
         SetNextTask(ScheduleNextProcess.scheduler, Survivors)
  PROVE  mode' = "running"
<1> DEFINE s == RemoveProcesses(scheduler, Doomed)
           r == ScheduleNextProcess
<1>1. InOrder
  BY DEF SafeInv
<1>2. s \in Scheduler
  BY <1>1, Forgotten
<1>3. PICK n \in Listed \ {s.current} : r.scheduler = [s EXCEPT !.next = n]
  BY <1>1, ScheduleNextProcessChooses
<1>4. n # Null
  BY Types, NullAssumption
<1> HIDE DEF s
<1>5. GetNext(r.scheduler) = n
  BY <1>2, <1>3 DEF GetNext, Scheduler
<1> QED
  BY <1>4, <1>5 DEF SetNextTask

(* A process without parent and without children is alone, when processes  *)
(* come from vfork only: the second of the list is a child of the first.   *)
LEMMA ChildlessRootIsAlone ==
  ASSUME IInv, SafeInv, Kin, "create" \notin Habits,
         NEW p \in Listed, table[p].parent = Null, Children(p) = {}
  PROVE  Listed = {p}
<1>1. /\ Len(processes) \in Nat /\ DOMAIN processes = 1..Len(processes)
      /\ \A i \in DOMAIN processes : processes[i] \in Listed
      /\ \A w \in Listed : \E i \in DOMAIN processes : processes[i] = w
  BY Types, Elements DEF Listed
<1>2. \A w \in Listed : w # p => table[w].parent \in Listed
  BY DEF Kin, OneRoot
<1>3. \A w \in Listed : table[w].parent # p
  BY DEF Children, Listed
<1>4. OneToOne(processes)
  BY DEF SafeInv, ListsInv
<1> SUFFICES ASSUME NEW w \in Listed, w # p PROVE FALSE
  OBVIOUS
<1>5. PICK i \in DOMAIN processes : processes[i] = p
  BY <1>1
<1>6. PICK j \in DOMAIN processes : processes[j] = w
  BY <1>1
<1>7. 1 \in DOMAIN processes /\ 2 \in DOMAIN processes
  BY <1>1, <1>5, <1>6
<1>8. ASSUME NEW k \in DOMAIN processes, processes[k] # p
      PROVE  \E m \in DOMAIN processes :
               m < k /\ processes[m] = table[processes[k]].parent
  BY <1>1, <1>2, <1>8 DEF Kin, ElderFirst
<1>9. processes[1] = p
  BY <1>1, <1>7, <1>8, SMTT(20)
<1>10. processes[2] # p
  BY <1>7, <1>9, <1>4 DEF OneToOne
<1>11. table[processes[2]].parent = p
  <2>1. PICK m \in DOMAIN processes : m < 2 /\ processes[m] = table[processes[2]].parent
    BY <1>7, <1>8, <1>10
  <2>2. m = 1
    BY <1>1, <2>1
  <2> QED
    BY <1>9, <2>1, <2>2
<1> QED
  BY <1>1, <1>3, <1>7, <1>11

(* Nobody waits for a process without parent, and no parent is gone.       *)
LEMMA EndsWithoutFault ==
  ASSUME "orphans" \notin Habits, ~({"strangerWait", "create"} \subseteq Habits),
         IInv, SafeInv, Kin, NEW p \in Proc, MayEnd(p)
  PROVE  EndFault(p) = "none"
<1>1. p \in Listed /\ mode = "running"
  BY DEF MayEnd, Executes, Listed
<1>2. table[p].parent \in Listed \cup {Null}
  BY <1>1 DEF Kin
<1>3. ~Dangling(table, table[p].parent)
  <2>1. \A w \in Listed : w \in Live
    BY DEF SafeInv, ListsInv
  <2> QED
    BY <1>2, <2>1 DEF Live, Dangling
<1>4. ASSUME table[p].parent = Null, NEW e \in table[p].blocks PROVE FALSE
  <2>1. table[p] \in Process
    BY Types
  <2>2. e.blocked \in Proc
    BY <2>1 DEF Process, BlockedProcessAction
  <2>3. p \in table[e.blocked].blockedBy
    BY <2>2 DEF SafeInv, WaitsInv, WaitersKnown
  <2>4. CASE "strangerWait" \notin Habits
    <3>1. table[p].parent = e.blocked
      BY <2>2, <2>3, <2>4 DEF Kin, ParentsWait
    <3> QED
      BY <1>4, <2>2, <3>1, NullAssumption
  <2>5. CASE "create" \notin Habits
    <3>1. Children(p) = {} /\ core = p /\ pc[p] = "user"
      BY DEF MayEnd, Executes
    <3>2. Listed = {p}
      BY <1>1, <1>4, <2>5, <3>1, ChildlessRootIsAlone
    <3>3. e.blocked = p
      BY <2>2, <2>3, <3>2 DEF SafeInv, WaitsInv
    <3>4. \A q \in Proc : ~Borrows(q, p)
      BY <1>1, <3>1 DEF SafeInv, InOrder, BorrowInv
    <3> QED
      BY <1>1, <2>3, <3>1, <3>3, <3>4 DEF SafeInv, InOrder, BorrowInv
  <2> QED
    BY <2>4, <2>5
<1>5. ~UnblockParentPanics(table, p)
  BY <1>4 DEF UnblockParentPanics
<1>6. ASSUME NEW e \in table[p].blocks PROVE ~Dangling(table, e.blocked)
  <2>1. table[p] \in Process
    BY Types
  <2>2. e.blocked \in Proc
    BY <2>1 DEF Process, BlockedProcessAction
  <2>3. p \in table[e.blocked].blockedBy
    BY <2>2 DEF SafeInv, WaitsInv, WaitersKnown
  <2>4. e.blocked \in Listed
    BY <2>2, <2>3 DEF SafeInv, WaitsInv
  <2> QED
    BY <2>4 DEF Dangling, SafeInv, ListsInv, Live
<1> QED
  BY <1>3, <1>5, <1>6 DEF EndFault

LEMMA NextFaultFree ==
  ASSUME Habits \cap {"orphans", "reExec"} = {},
         ~({"strangerWait", "create"} \subseteq Habits),
         IInv, SafeInv, Kin, FaultFree, [Next]_vars
  PROVE  FaultFree'
<1>1. CASE UNCHANGED vars
  BY <1>1 DEF vars, FaultFree, Listed
<1>2. CASE StartRoot
  <2>1. PICK n \in Listed : table[n].state = "Ready"
    BY <1>2 DEF StartRoot, FaultFree
  <2>2. ScheduleNextProcess.action \in {"Switch", "StoreAndSwitch"}
    BY <1>2, <2>1, ReadyIsFound DEF StartRoot, FaultFree
  <2>3. mode' = "running"
    BY <1>2, <2>2, SwitchHasTarget DEF StartRoot
  <2> QED
    BY <2>3 DEF FaultFree
<1>3. CASE ContextSwitch
  <2>1. mode' \in {"running", "main"}
    BY <1>3, SwitchHasTarget DEF ContextSwitch
  <2> QED
    BY <2>1 DEF FaultFree
<1>4. ASSUME NEW p \in Proc, SystemCall(p) PROVE FaultFree'
  <2>1. ~ReExec(p) /\ ~ExecFaults(p)
    BY ExecsOnce
  <2>2. ~EndFaults(p)
    BY EndsWithoutFault DEF EndFaults
  <2>3. ASSUME NEW t, NEW rc, Delete(t, p, rc), MayEnd(p)
        PROVE  mode = "running" /\ mode' = mode
    BY <2>3 DEF Delete, MayEnd, Executes
  <2>4. ASSUME \/ Vfork(p) \/ VforkWithoutPid(p) \/ VforkOutOfMemory(p) \/ Exec(p)
               \/ RefusedCall(p) \/ CreateTakePid(p)
        PROVE  mode = "running" /\ mode' = mode
    BY <2>4 DEF Vfork, VforkWithoutPid, VforkOutOfMemory, Exec, RefusedCall,
                CreateTakePid, Executes
  <2>5. ASSUME NEW q \in Proc, WaitpidBegin(p, q)
        PROVE  mode = "running" /\ mode' = mode
    BY <2>5 DEF WaitpidBegin, Executes
  <2>6. ASSUME NEW n \in Pid, WaitpidUnknown(p, n)
        PROVE  mode = "running" /\ mode' = mode
    BY <2>6 DEF WaitpidUnknown, Executes
  <2>7. ASSUME Kill(p) PROVE mode = "running" /\ mode' = mode
    BY <2>3, <2>7 DEF Kill
  <2>8. ASSUME NEW rc \in Code, Exit(p, rc) PROVE mode = "running" /\ mode' = mode
    BY <2>3, <2>8 DEF Exit
  <2>9. mode = "running" /\ mode' = mode
    BY <1>4, <2>1, <2>2, <2>4, <2>5, <2>6, <2>7, <2>8 DEF SystemCall
  <2> QED
    BY <2>9 DEF FaultFree
<1>5. ASSUME NEW p \in Proc, KernelStep(p) PROVE FaultFree'
  <2>1. mode = "running" /\ mode' = mode
    BY <1>5 DEF KernelStep, ExitSpin, WaitpidSpin, WaitpidReturn, CreateAppend,
                CreateOutOfMemory, Executes
  <2> QED
    BY <2>1 DEF FaultFree
<1> QED
  BY <1>1, <1>2, <1>3, <1>4, <1>5 DEF Next

LEMMA InitFaultFree == Init => FaultFree
<1> SUFFICES ASSUME Init PROVE FaultFree
  OBVIOUS
<1> DEFINE root == CHOOSE p \in Proc : TRUE
<1>1. root \in Proc
  BY ProcAssumption
<1>2. /\ table = [p \in Proc |-> IF p = root THEN NewProcess(1) ELSE NoProcess]
      /\ processes = <<root>> /\ mode = "boot" /\ scheduler.current = Null
  BY DEF Init
<1> HIDE DEF root
<1>3. NewProcess(1).state = "Ready"
  BY DEF NewProcess, NoProcess
<1>4. table[root].state = "Ready"
  BY <1>1, <1>2, <1>3
<1>5. root \in Listed
  BY <1>2 DEF Listed, ToSet
<1> QED
  BY <1>2, <1>4, <1>5 DEF FaultFree

(* As long as nobody leaves children behind and exec is called in fresh    *)
(* vfork children, the kernel never panics and follows no pointer to a     *)
(* destroyed process.  Each of the two habits does lead to a fault; and so *)
(* do strangers that wait for a process of create_process, which has no    *)
(* parent for unblock_parent to wake up.                                   *)
THEOREM KernelNeverFails ==
  ASSUME Habits \cap {"orphans", "reExec"} = {},
         ~({"strangerWait", "create"} \subseteq Habits)
  PROVE  Spec => []NoFault
<1>1. Spec => []Kin
  BY SpecKin
<1>2. IInv /\ SafeInv /\ Kin /\ FaultFree /\ [Next]_vars => FaultFree'
  BY NextFaultFree
<1>3. FaultFree => NoFault
  BY DEF FaultFree, NoFault
<1>4. Spec => []SafeInv
  BY SpecSafeInv
<1> QED
  BY <1>1, <1>2, <1>3, <1>4, InitFaultFree, SpecIInv, PTL DEF Spec

-----------------------------------------------------------------------------
(* What waitpid reports.  Nothing but sys_exit changes the cell in which a *)
(* child leaves its code.                                                  *)
SameCodes(t, u) == \A w \in Proc : u[w].childExitCode = t[w].childExitCode

LEMMA FieldsCodes ==
  ASSUME NEW r \in Process, NEW q, NEW es, NEW rc \in Code
  PROVE  /\ Reevaluated(r).childExitCode = r.childExitCode
         /\ UnblockedFrom(r, q).childExitCode = r.childExitCode
         /\ Notified(r, q, es, rc).childExitCode = r.childExitCode
<1>1. \A s \in Process : Reevaluated(s).childExitCode = s.childExitCode
  BY DEF Reevaluated, Process
<1> DEFINE less == [r EXCEPT !.blockedBy = @ \ {q}]
<1>2. less \in Process /\ less.childExitCode = r.childExitCode
  BY DEF Process
<1>3. UnblockedFrom(r, q) = Reevaluated(less)
  BY DEF UnblockedFrom
<1> HIDE DEF less
<1>4. Notified(r, q, es, rc).childExitCode = r.childExitCode
  BY DEF Notified, Process
<1> QED
  BY <1>1, <1>2, <1>3, <1>4

LEMMA SetNextCodes ==
  ASSUME NEW s \in Scheduler, NEW t \in Table, NEW n \in Proc
  PROVE  SameCodes(t, SetNext(s, t, n).table)
<1> DEFINE chosen == [s EXCEPT !.next = n]
           left   == LeaveCurrent(chosen, t)
           run    == [left[n] EXCEPT !.state = "Running", !.initialized = TRUE]
<1>1. chosen \in Scheduler /\ chosen.next = n /\ n # Null
  BY NullAssumption DEF Scheduler
<1>2. SetNext(s, t, n).table = [left EXCEPT ![n] = run]
  BY <1>1 DEF SetNext, UpdateCurrent
<1> HIDE DEF chosen
<1>3. left \in Table
  BY <1>1, LeaveCurrentType
<1>4. SameCodes(t, left)
  <2>1. CASE chosen.current = Null
    BY <2>1 DEF LeaveCurrent, SameCodes
  <2>2. CASE chosen.current # Null
    <3>1. chosen.current \in Proc
      BY <1>1, <2>2 DEF Scheduler
    <3>2. left = [t EXCEPT ![chosen.current] = Reevaluated(t[chosen.current])]
      BY <2>2 DEF LeaveCurrent, Reevaluate
    <3>3. Reevaluated(t[chosen.current]).childExitCode = t[chosen.current].childExitCode
      BY <3>1, FieldsCodes, CodeAssumption DEF Table
    <3> HIDE DEF left
    <3> QED
      BY <3>1, <3>2, <3>3 DEF Table, SameCodes
  <2> QED
    BY <2>1, <2>2
<1> HIDE DEF left
<1>5. run.childExitCode = left[n].childExitCode
  BY <1>3 DEF Table, Process
<1> HIDE DEF run
<1> QED
  BY <1>2, <1>3, <1>4, <1>5 DEF Table, SameCodes

LEMMA WaitForProcessCodes ==
  ASSUME NEW t \in Table, NEW p \in Proc, NEW q \in Proc, NEW action \in UnblockAction
  PROVE  SameCodes(t, WaitForProcess(t, p, q, action))
<1> DEFINE e == [blocked |-> p, action |-> action]
           owner == [t[q] EXCEPT !.blocks = @ \cup {e}]
           told  == [t EXCEPT ![q] = owner]
           waiter == [told[p] EXCEPT !.blockedBy = @ \cup {q}]
           waits == [told EXCEPT ![p] = waiter]
<1>1. WaitForProcess(t, p, q, action) = [waits EXCEPT ![p] = Reevaluated(waits[p])]
  BY DEF WaitForProcess, Reevaluate
<1>2. t[q] \in Process /\ e \in BlockedProcessAction
  BY DEF Table, BlockedProcessAction
<1> HIDE DEF e
<1>3. owner \in Process /\ owner.childExitCode = t[q].childExitCode
  BY <1>2 DEF Process
<1> HIDE DEF owner
<1>4. told \in Table /\ SameCodes(t, told)
  BY <1>3 DEF Table, SameCodes
<1> HIDE DEF told
<1>5. waiter \in Process /\ waiter.childExitCode = told[p].childExitCode
  BY <1>4 DEF Table, Process
<1> HIDE DEF waiter
<1>6. waits \in Table /\ SameCodes(told, waits)
  BY <1>4, <1>5 DEF Table, SameCodes
<1> HIDE DEF waits
<1>7. Reevaluated(waits[p]).childExitCode = waits[p].childExitCode
  BY <1>6, FieldsCodes, CodeAssumption DEF Table
<1> QED
  BY <1>1, <1>4, <1>6, <1>7 DEF Table, SameCodes

LEMMA UnblockParentCodes ==
  ASSUME NEW t \in Table, NEW p \in Proc
  PROVE  SameCodes(t, UnblockParent(t, p))
<1> DEFINE parent  == t[p].parent
           toldOff == {e \in t[p].blocks : e.blocked = parent}
           rest    == [t[p] EXCEPT !.blocks = @ \ toldOff]
           self    == [t EXCEPT ![p] = Reevaluated(rest)]
<1>1. t[p] \in Process /\ parent \in Proc \cup {Null}
  BY DEF Table, Process
<1>2. rest \in Process /\ rest.childExitCode = t[p].childExitCode
  <2> HIDE DEF toldOff
  <2> QED
    BY <1>1 DEF Process
<1>3. Reevaluated(rest) \in Process /\ Reevaluated(rest).childExitCode = t[p].childExitCode
  <2> HIDE DEF rest
  <2> QED
    BY <1>2, ReevaluatedType, FieldsCodes, CodeAssumption
<1>4. self \in Table /\ SameCodes(t, self)
  <2> HIDE DEF rest
  <2> QED
    BY <1>3 DEF Table, SameCodes
<1>5. CASE parent = Null
  BY <1>4, <1>5 DEF UnblockParent
<1>6. CASE parent # Null
  <2> DEFINE told == Notified(self[parent], parent, toldOff, 0)
             free == UnblockedFrom(told, p)
  <2>1. UnblockParent(t, p) = [self EXCEPT ![parent] = free]
    BY <1>6 DEF UnblockParent
  <2>2. parent \in Proc
    BY <1>1, <1>6
  <2> HIDE DEF self, parent, toldOff
  <2>3. self[parent] \in Process /\ 0 \in Code
    BY <1>4, <2>2, CodeAssumption DEF Table
  <2>4. told \in Process /\ told.childExitCode = self[parent].childExitCode
    BY <2>3, FieldsCodes, NotifiedFields
  <2> HIDE DEF told
  <2>5. free.childExitCode = told.childExitCode
    BY <2>3, <2>4, FieldsCodes
  <2> HIDE DEF free
  <2> QED
    BY <1>4, <2>1, <2>2, <2>4, <2>5 DEF Table, SameCodes
<1> QED
  BY <1>5, <1>6

LEMMA UnblockAllCodes ==
  ASSUME NEW t \in Table, NEW p \in Proc, NEW rc \in Code
  PROVE  SameCodes(t, UnblockAll(t, p, rc))
<1> DEFINE bare    == [t[p] EXCEPT !.blocks = {}]
           self    == [t EXCEPT ![p] = bare]
           told(w) == Notified(self[w], w, t[p].blocks, rc)
           u       == UnblockAll(t, p, rc)
<1>1. bare \in Process /\ bare.childExitCode = t[p].childExitCode
  BY DEF Table, Process
<1>2. u = [w \in Proc |-> IF w \in WaitersOf(t, p) THEN UnblockedFrom(told(w), p) ELSE self[w]]
  BY DEF UnblockAll, Table, WaitersOf
<1> HIDE DEF bare
<1>3. self \in Table /\ SameCodes(t, self)
  BY <1>1 DEF Table, SameCodes
<1> HIDE DEF self, u
<1>4. ASSUME NEW w \in Proc PROVE u[w].childExitCode = self[w].childExitCode
  <2>1. self[w] \in Process
    BY <1>3 DEF Table
  <2>2. told(w) \in Process /\ told(w).childExitCode = self[w].childExitCode
    BY <2>1, FieldsCodes, NotifiedFields
  <2>3. UnblockedFrom(told(w), p).childExitCode = told(w).childExitCode
    <3> HIDE DEF told
    <3> QED
      BY <2>2, FieldsCodes
  <2> QED
    BY <1>2, <2>2, <2>3
<1> QED
  BY <1>3, <1>4 DEF SameCodes, u

LEMMA DeletedCodes ==
  ASSUME NEW t \in Table, NEW p \in Proc, NEW rc \in Code
  PROVE  Deleted(t, p, rc) \in Table /\ SameCodes(t, Deleted(t, p, rc))
<1> DEFINE u1 == UnblockParent(t, p)
           gone == [u1[p] EXCEPT !.state = "Terminated"]
           u2 == ScheduleRemoval(u1, p)
<1>1. u1 \in Table /\ SameCodes(t, u1)
  BY UnblockParentType, UnblockParentCodes
<1>2. Deleted(t, p, rc) = UnblockAll(u2, p, rc)
  BY DEF Deleted
<1>3. u2 = [u1 EXCEPT ![p] = gone] /\ u2 \in Table
  BY <1>1, ScheduleRemovalType DEF ScheduleRemoval
<1> HIDE DEF u1, u2
<1>4. gone.childExitCode = u1[p].childExitCode
  BY <1>1 DEF Table, Process
<1> HIDE DEF gone
<1>5. SameCodes(u1, u2)
  BY <1>1, <1>3, <1>4 DEF Table, SameCodes
<1>6. UnblockAll(u2, p, rc) \in Table /\ SameCodes(u2, UnblockAll(u2, p, rc))
  BY <1>3, UnblockAllType, UnblockAllCodes
<1> QED
  BY <1>1, <1>2, <1>5, <1>6 DEF SameCodes

-----------------------------------------------------------------------------
(* Without siblings a process has one child in the list.  A process within *)
(* waitpid waits for that child, which knows what it wants; or the child   *)
(* has ended, its code is in the cell and no other child can replace it.   *)
OneChild ==
  \A q, r \in Listed : table[q].parent # Null /\ table[q].parent = table[r].parent => q = r

Awaits(p) ==
  /\ \A q \in table[p].blockedBy :
       /\ table[q].parent = p
       /\ [blocked |-> p, action |-> "waitpid"] \in table[q].blocks
  /\ table[p].blockedBy = {} =>
       /\ owed[p] = table[p].childExitCode
       /\ \A q \in Listed : table[q].parent # p

Asked ==
  /\ OneChild
  /\ mode \in {"boot", "running"} => \A p \in Proc : pc[p] = "waitpid" => Awaits(p)

(* A step that does not concern who is waiting, or whom it waits for.      *)
LEMMA StillAwaits ==
  ASSUME NEW p \in Proc, Awaits(p),
         table'[p].blockedBy = table[p].blockedBy,
         table'[p].childExitCode = table[p].childExitCode, owed'[p] = owed[p],
         \A q \in table[p].blockedBy :
           /\ table'[q].parent = table[q].parent
           /\ \A e \in table[q].blocks : e.blocked = p => e \in table'[q].blocks,
         \A q \in Listed' : table'[q].parent = p => q \in Listed /\ table[q].parent = p
  PROVE  Awaits(p)'
BY DEF Awaits

(* Where no process is added, nobody gets a second child.                  *)
LEMMA NoMoreChildren ==
  ASSUME OneChild, Listed' \subseteq Listed,
         \A q \in Listed' : table'[q].parent = table[q].parent
  PROVE  OneChild'
BY DEF OneChild

(* Whoever a process waits for is in the list.                             *)
LEMMA AwaitedListed ==
  ASSUME IInv, SafeInv, NEW p \in Proc, NEW q \in table[p].blockedBy
  PROVE  q \in Proc /\ q \in Listed
<1>1. q \in Proc
  BY Types DEF Process
<1> QED
  BY <1>1 DEF SafeInv, WaitsInv, WaitersKnown

(* Calls that leave ties and codes alone.                                  *)
LEMMA CalmAsked ==
  ASSUME IInv, SafeInv, Asked, mode \in {"boot", "running"}, UNCHANGED <<processes, owed>>,
         \A w \in Proc : SameTies(table[w], table'[w]), SameCodes(table, table'),
         \A w \in Proc : pc'[w] = "waitpid" => pc[w] = "waitpid"
  PROVE  Asked'
<1>1. Listed' = Listed
  BY DEF Listed
<1>2. OneChild'
  BY <1>1, Types, NoMoreChildren DEF Asked, SameTies
<1>3. ASSUME NEW p \in Proc, pc'[p] = "waitpid" PROVE Awaits(p)'
  <2>1. Awaits(p)
    BY <1>3 DEF Asked
  <2>2. \A q \in table[p].blockedBy : q \in Proc
    BY AwaitedListed
  <2>3. \A q \in Listed : q \in Proc
    BY Types
  <2> QED
    BY <1>1, <2>1, <2>2, <2>3, StillAwaits DEF SameTies, SameCodes
<1> QED
  BY <1>2, <1>3 DEF Asked

LEMMA GateCallsAsked ==
  ASSUME IInv, SafeInv, Asked, NEW p \in Proc,
         \/ VforkWithoutPid(p) \/ VforkOutOfMemory(p) \/ RefusedCall(p) \/ ExitSpin(p)
         \/ CreateTakePid(p) \/ CreateOutOfMemory(p)
  PROVE  Asked'
<1>1. /\ mode = "running" /\ UNCHANGED <<table, processes, owed>>
      /\ pc' = pc \/ \E l \in {"user", "create"} : pc' = [pc EXCEPT ![p] = l]
  BY DEF VforkWithoutPid, VforkOutOfMemory, RefusedCall, ExitSpin, CreateTakePid,
         CreateOutOfMemory, Executes
<1>2. \A w \in Proc : pc'[w] = "waitpid" => pc[w] = "waitpid"
  BY <1>1 DEF IInv, Others
<1>3. SameCodes(table, table') /\ \A w \in Proc : SameTies(table[w], table'[w])
  BY <1>1 DEF SameCodes, SameTies
<1> QED
  BY <1>1, <1>2, <1>3, CalmAsked

LEMMA WaitpidUnknownAsked ==
  ASSUME IInv, SafeInv, Asked, NEW p \in Proc, NEW n \in Pid, WaitpidUnknown(p, n)
  PROVE  Asked'
<1> DEFINE r == [table[p] EXCEPT !.status = table[p].childExitCode]
<1>1. SameTies(table[p], r) /\ r.childExitCode = table[p].childExitCode
  BY Types DEF SameTies, Process
<1>2. table' = [table EXCEPT ![p] = r]
  BY DEF WaitpidUnknown
<1>3. mode = "running" /\ UNCHANGED <<processes, owed, pc>>
  BY DEF WaitpidUnknown, Executes
<1> HIDE DEF r
<1>4. SameCodes(table, table') /\ \A w \in Proc : SameTies(table[w], table'[w])
  BY <1>1, <1>2, Types DEF Table, SameTies, SameCodes
<1> QED
  BY <1>3, <1>4, CalmAsked

LEMMA WaitpidSpinAsked ==
  ASSUME IInv, SafeInv, Asked, NEW p \in Proc, WaitpidSpin(p)
  PROVE  Asked'
<1>1. /\ SameTies(table[p], Reevaluated(table[p]))
      /\ Reevaluated(table[p]).childExitCode = table[p].childExitCode
  BY Types, ReevaluatedFields, FieldsCodes, CodeAssumption
<1>2. table' = [table EXCEPT ![p] = Reevaluated(table[p])]
  BY DEF WaitpidSpin, Reevaluate
<1>3. mode = "running" /\ UNCHANGED <<processes, owed, pc>>
  BY DEF WaitpidSpin, Executes
<1>4. SameCodes(table, table') /\ \A w \in Proc : SameTies(table[w], table'[w])
  BY <1>1, <1>2, Types DEF Table, SameTies, SameCodes
<1> QED
  BY <1>3, <1>4, CalmAsked

(* waitpid takes what is in the cell.                                      *)
LEMMA WaitpidReturnTable ==
  ASSUME IInv, NEW p \in Proc, WaitpidReturn(p)
  PROVE  /\ table'[p].status = table[p].childExitCode
         /\ SameCodes(table, table')
         /\ \A w \in Proc : SameTies(table[w], table'[w])
<1> DEFINE woken == Reevaluated(table[p])
           r     == [woken EXCEPT !.status = table[p].childExitCode]
<1>1. /\ SameTies(table[p], woken) /\ woken \in Process
      /\ woken.childExitCode = table[p].childExitCode
  BY Types, ReevaluatedFields, ReevaluatedType, FieldsCodes, CodeAssumption
<1>2. table' = [table EXCEPT ![p] = r]
  BY DEF WaitpidReturn
<1> HIDE DEF woken
<1>3. /\ r.status = table[p].childExitCode /\ SameTies(table[p], r)
      /\ r.childExitCode = table[p].childExitCode
  BY <1>1 DEF SameTies, Process
<1> HIDE DEF r
<1> QED
  BY <1>2, <1>3, Types DEF Table, SameTies, SameCodes

LEMMA WaitpidReturnAsked ==
  ASSUME IInv, SafeInv, Asked, NEW p \in Proc, WaitpidReturn(p)
  PROVE  Asked'
<1>1. /\ Executes(p, "waitpid") /\ mode = "running" /\ UNCHANGED processes
      /\ pc' = [pc EXCEPT ![p] = "user"] /\ owed' = [owed EXCEPT ![p] = Null]
  BY DEF WaitpidReturn, Executes
<1>2. SameCodes(table, table') /\ \A w \in Proc : SameTies(table[w], table'[w])
  BY WaitpidReturnTable
<1>3. Listed' = Listed
  BY <1>1 DEF Listed
<1>4. OneChild'
  BY <1>2, <1>3, Types, NoMoreChildren DEF Asked, SameTies
<1>5. ASSUME NEW w \in Proc, pc'[w] = "waitpid" PROVE Awaits(w)'
  <2>1. w # p /\ pc[w] = "waitpid" /\ owed'[w] = owed[w]
    BY <1>1, <1>5 DEF IInv, Others
  <2>2. Awaits(w)
    BY <1>1, <2>1 DEF Asked
  <2>3. \A q \in table[w].blockedBy : q \in Proc
    BY AwaitedListed
  <2>4. \A q \in Listed : q \in Proc
    BY Types
  <2> QED
    BY <1>2, <1>3, <2>1, <2>2, <2>3, <2>4, StillAwaits DEF SameTies, SameCodes
<1> QED
  BY <1>4, <1>5 DEF Asked

(* vfork gives the first child, and only to who has none.                  *)
LEMMA VforkCodes ==
  ASSUME IInv, NEW p \in Proc, Vfork(p)
  PROVE  \E child \in FreeSlots :
           /\ processes' = Append(processes, child)
           /\ \A w \in Proc \ {child} : table'[w].childExitCode = table[w].childExitCode
<1>1. PICK child \in FreeSlots :
        LET forked == [table EXCEPT ![child] = VforkedProcess(p, NextPid)]
            waits  == WaitForProcess(forked, p, child, "vfork")
            moved  == SetNext(scheduler, waits, child)
        IN  /\ table' = [moved.table EXCEPT ![child].vforkContext = TRUE]
            /\ processes' = Append(processes, child)
  BY DEF Vfork
<1> DEFINE new    == VforkedProcess(p, NextPid)
           forked == [table EXCEPT ![child] = new]
           waits  == WaitForProcess(forked, p, child, "vfork")
           moved  == SetNext(scheduler, waits, child).table
<1>2. child \in Proc
  BY DEF FreeSlots
<1>3. new \in Process
  BY NextPidType, VforkedProcessType, MaxPidAssumption DEF Vfork, Pid
<1> HIDE DEF new
<1>4. forked \in Table /\ \A w \in Proc \ {child} : forked[w] = table[w]
  BY <1>2, <1>3, Types DEF Table
<1> HIDE DEF forked
<1>5. waits \in Table /\ SameCodes(forked, waits)
  BY <1>2, <1>4, WaitForProcessType, WaitForProcessCodes DEF UnblockAction
<1> HIDE DEF waits
<1>6. moved \in Table /\ SameCodes(waits, moved)
  BY <1>2, <1>5, Types, SetNextFields, SetNextCodes
<1>7. table' = [moved EXCEPT ![child].vforkContext = TRUE]
  BY <1>1 DEF new, forked, waits
<1> HIDE DEF moved
<1>8. \A w \in Proc \ {child} : table'[w] = moved[w]
  BY <1>2, <1>6, <1>7 DEF Table
<1>9. processes' = Append(processes, child)
  BY <1>1
<1>10. \A w \in Proc \ {child} : table'[w].childExitCode = table[w].childExitCode
  BY <1>4, <1>5, <1>6, <1>8 DEF SameCodes
<1> QED
  BY <1>9, <1>10

LEMMA VforkAsked ==
  ASSUME "siblings" \notin Habits, IInv, SafeInv, Asked, NEW p \in Proc, Vfork(p)
  PROVE  Asked'
<1>1. PICK child \in FreeSlots :
        /\ processes' = Append(processes, child)
        /\ pc' = [pc EXCEPT ![child] = "user"]
        /\ table'[child].parent = p
        /\ SameOrigin(table[p], table'[p]) /\ table'[p].blocks = table[p].blocks
        /\ \A w \in Proc \ {child, p} : Same(table[w], table'[w])
  BY VforkTable
<1>2. PICK other \in FreeSlots :
        /\ processes' = Append(processes, other)
        /\ \A w \in Proc \ {other} : table'[w].childExitCode = table[w].childExitCode
  BY VforkCodes
<1>3. /\ mode = "running" /\ pc[p] = "user" /\ p \in Listed /\ Children(p) = {}
      /\ UNCHANGED owed
  BY Executing DEF Vfork, Executes, Location
<1>4. child \in Proc /\ child \notin Listed /\ other \notin Listed /\ child # p
  BY <1>1, <1>3 DEF FreeSlots, SafeInv, ListsInv, Live
<1>5. Listed' = Listed \cup {child}
  BY <1>1, <1>4, Types, AppendElements DEF Listed
<1>6. \A w \in Listed : /\ w \in Proc \ {child} /\ w # other
                        /\ table'[w].parent = table[w].parent
  BY <1>1, <1>4, Types DEF Same, SameTies, SameOrigin
<1>7. \A w \in Listed : table[w].parent # p
  BY <1>3 DEF Children, Listed
<1>8. OneChild'
  BY <1>1, <1>5, <1>6, <1>7 DEF Asked, OneChild
<1>9. ASSUME NEW w \in Proc, pc'[w] = "waitpid" PROVE Awaits(w)'
  <2>1. pc[w] = "waitpid" /\ w # p /\ w # child
    BY <1>1, <1>3, <1>4, <1>9 DEF IInv, Others
  <2>2. Awaits(w) /\ w \in Listed /\ owed'[w] = owed[w]
    BY <1>3, <2>1 DEF Asked, SafeInv, PlacesInv
  <2>3. /\ table'[w].blockedBy = table[w].blockedBy
        /\ table'[w].childExitCode = table[w].childExitCode
    BY <1>1, <1>2, <1>6, <2>1, <2>2 DEF Same, SameTies
  <2>4. \A q \in table[w].blockedBy :
          /\ table'[q].parent = table[q].parent
          /\ \A e \in table[q].blocks : e.blocked = w => e \in table'[q].blocks
    BY <1>1, <1>6, AwaitedListed DEF Same, SameTies
  <2> QED
    BY <1>1, <1>5, <1>6, <2>1, <2>2, <2>3, <2>4, StillAwaits
<1> QED
  BY <1>8, <1>9 DEF Asked

(* exec lets the parent go on with its vfork, not with a waitpid.          *)
LEMMA ExecCodes ==
  ASSUME IInv, NEW p \in Proc, Exec(p), table[p].parent \in Proc
  PROVE  SameCodes(table, table')
<1> DEFINE parent == table[p].parent
           bare   == [table[p] EXCEPT !.stackShared = FALSE, !.initialized = FALSE]
           loaded == [table EXCEPT ![p] = bare]
           moved  == SetNext(scheduler, loaded, parent).table
           own    == [moved[p] EXCEPT !.vforkContext = FALSE]
           left   == [moved EXCEPT ![p] = own]
<1>1. bare \in Process /\ bare.childExitCode = table[p].childExitCode
  <2>1. table[p] \in Process
    BY Types
  <2> QED
    BY <2>1 DEF Process
<1>2. table' = UnblockParent(left, p)
  BY Types DEF Exec, Table
<1> HIDE DEF bare
<1>3. loaded \in Table /\ SameCodes(table, loaded)
  BY <1>1, Types DEF Table, SameCodes
<1> HIDE DEF loaded
<1>4. moved \in Table /\ SameCodes(loaded, moved)
  BY <1>3, Types, SetNextFields, SetNextCodes
<1> HIDE DEF moved
<1>5. own \in Process /\ own.childExitCode = moved[p].childExitCode
  <2>1. moved[p] \in Process
    BY <1>4 DEF Table
  <2> QED
    BY <2>1 DEF Process
<1> HIDE DEF own
<1>6. left \in Table /\ SameCodes(moved, left)
  BY <1>4, <1>5 DEF Table, SameCodes
<1> HIDE DEF left
<1>7. SameCodes(left, table')
  BY <1>2, <1>6, UnblockParentCodes
<1> QED
  BY <1>3, <1>4, <1>6, <1>7 DEF SameCodes

LEMMA ExecAsked ==
  ASSUME IInv, SafeInv, Asked, NEW p \in Proc, Exec(p)
  PROVE  Asked'
<1>1. PICK parent \in Listed :
        /\ Borrows(p, parent)
        /\ table'[p].parent = parent
        /\ table'[p].blocks = {e \in table[p].blocks : e.blocked # parent}
        /\ SameOrigin(table[parent], table'[parent])
        /\ table'[parent].blocks = table[parent].blocks
        /\ \A w \in Proc \ {p, parent} : Same(table[w], table'[w])
  BY ExecTable
<1>2. /\ mode = "running" /\ pc[p] = "user" /\ InOrder
      /\ UNCHANGED <<processes, owed, pc>> /\ Listed' = Listed
  BY Executing, ExecSafe DEF Exec, Executes, Location, Listed
<1>3. parent \in Proc /\ table[p].parent = parent /\ pc[parent] = "user"
  BY <1>1, <1>2, Types DEF Borrows, InOrder, BorrowInv
<1>4. SameCodes(table, table')
  BY <1>3, ExecCodes
<1>5. \A w \in Proc : table'[w].parent = table[w].parent
  BY <1>1, <1>3 DEF Same, SameTies, SameOrigin
<1>6. OneChild'
  BY <1>2, <1>5, Types, NoMoreChildren DEF Asked
<1>7. ASSUME NEW w \in Proc, pc'[w] = "waitpid" PROVE Awaits(w)'
  <2>1. pc[w] = "waitpid" /\ w # p /\ w # parent
    BY <1>2, <1>3, <1>7
  <2>2. Awaits(w) /\ owed'[w] = owed[w]
    BY <1>2, <2>1 DEF Asked
  <2>3. /\ table'[w].blockedBy = table[w].blockedBy
        /\ table'[w].childExitCode = table[w].childExitCode
    BY <1>1, <1>4, <2>1 DEF Same, SameTies, SameCodes
  <2>4. \A q \in table[w].blockedBy :
          /\ table'[q].parent = table[q].parent
          /\ \A e \in table[q].blocks : e.blocked = w => e \in table'[q].blocks
    <3>1. \A q \in table[w].blockedBy : q \in Proc
      BY AwaitedListed
    <3> QED
      BY <1>1, <1>5, <2>1, <3>1 DEF Same, SameTies
  <2>5. \A q \in Listed' : table'[q].parent = w => q \in Listed /\ table[q].parent = w
    BY <1>2, <1>5, Types
  <2> QED
    BY <2>2, <2>3, <2>4, <2>5, StillAwaits
<1> QED
  BY <1>6, <1>7 DEF Asked

(* waitpid begins to wait for the child, or finds ...                      *)
LEMMA WaitpidBeginAsked ==
  ASSUME "strangerWait" \notin Habits,
         IInv, SafeInv, Asked, NEW p \in Proc, NEW q \in Proc, WaitpidBegin(p, q)
  PROVE  Asked'
<1> DEFINE e == [blocked |-> p, action |-> "waitpid"]
<1>1. /\ mode = "running" /\ UNCHANGED <<processes, owed>> /\ Listed' = Listed
      /\ table[q].parent = p /\ table[p].blockedBy = {}
      /\ pc' = [pc EXCEPT ![p] = "waitpid"]
  BY Executing DEF WaitpidBegin, Executes, Location, Listed
<1>2. /\ SameCodes(table, table')
      /\ \A w \in Proc :
           /\ SameOrigin(table[w], table'[w])
           /\ w = q => table'[w].blocks = table[w].blocks \cup {e}
           /\ w # q => table'[w].blocks = table[w].blocks
           /\ w = p => table'[w].blockedBy = table[w].blockedBy \cup {q}
           /\ w # p => table'[w].blockedBy = table[w].blockedBy
  <2>1. table' = WaitForProcess(table, p, q, "waitpid") /\ "waitpid" \in UnblockAction
    BY DEF WaitpidBegin, UnblockAction
  <2> QED
    BY <2>1, Types, WaitForProcessFields, WaitForProcessCodes
<1> HIDE DEF e
<1>3. \A w \in Proc : table'[w].parent = table[w].parent
  BY <1>2 DEF SameOrigin
<1>4. OneChild'
  BY <1>1, <1>3, Types, NoMoreChildren DEF Asked
<1>5. ASSUME NEW w \in Proc, pc'[w] = "waitpid" PROVE Awaits(w)'
  <2>1. CASE w = p
    <3>1. table'[p].blockedBy = {q} /\ table'[q].parent = p /\ e \in table'[q].blocks
      BY <1>1, <1>2, <1>3
    <3> QED
      BY <2>1, <3>1 DEF Awaits, e
  <2>2. CASE w # p
    <3>1. pc[w] = "waitpid" /\ owed'[w] = owed[w] /\ table'[w].blockedBy = table[w].blockedBy
      BY <1>1, <1>2, <1>5, <2>2 DEF IInv, Others
    <3>2. Awaits(w)
      BY <1>1, <3>1 DEF Asked
    <3>3. \A r \in table[w].blockedBy :
            /\ table'[r].parent = table[r].parent
            /\ \A f \in table[r].blocks : f.blocked = w => f \in table'[r].blocks
      BY <1>2, <1>3, AwaitedListed
    <3>4. \A r \in Listed' : table'[r].parent = w => r \in Listed /\ table[r].parent = w
      BY <1>1, <1>3, Types
    <3>5. table'[w].childExitCode = table[w].childExitCode
      BY <1>2 DEF SameCodes
    <3> QED
      BY <3>1, <3>2, <3>3, <3>4, <3>5, StillAwaits
  <2> QED
    BY <2>1, <2>2
<1> QED
  BY <1>4, <1>5 DEF Asked

(* A process of create_process is nobody's child.                          *)
LEMMA CreateAppendAsked ==
  ASSUME IInv, SafeInv, Asked, NEW p \in Proc, CreateAppend(p)
  PROVE  Asked'
<1>1. PICK q \in FreeSlots :
        /\ table' = [table EXCEPT ![q] = NewProcess(newPid[p])]
        /\ processes' = Append(processes, q)
        /\ pc' = [pc EXCEPT ![p] = "user", ![q] = "user"]
  BY DEF CreateAppend
<1>2. mode = "running" /\ UNCHANGED owed
  BY DEF CreateAppend, Executes
<1>3. q \in Proc /\ q \notin Listed
  BY <1>1 DEF FreeSlots, SafeInv, ListsInv, Live
<1>4. table'[q].parent = Null /\ \A w \in Proc \ {q} : table'[w] = table[w]
  BY <1>1, <1>3, Types DEF Table, NewProcess, NoProcess
<1>5. Listed' = Listed \cup {q}
  BY <1>1, <1>3, Types, AppendElements DEF Listed
<1>6. \A w \in Listed : w \in Proc \ {q}
  BY <1>3, Types
<1>7. OneChild'
  BY <1>4, <1>5, <1>6 DEF Asked, OneChild
<1>8. ASSUME NEW w \in Proc, pc'[w] = "waitpid" PROVE Awaits(w)'
  <2>1. pc[w] = "waitpid" /\ w # Null
    BY <1>1, <1>8, NullAssumption DEF IInv, Others
  <2>2. Awaits(w) /\ w \in Listed
    BY <1>2, <2>1 DEF Asked, SafeInv, PlacesInv
  <2>3. \A r \in table[w].blockedBy : r \in Listed
    BY AwaitedListed
  <2>4. table'[w] = table[w] /\ \A r \in table[w].blockedBy : table'[r] = table[r]
    BY <1>4, <1>6, <2>2, <2>3
  <2>5. \A r \in Listed' : table'[r].parent = w => r \in Listed /\ table[r].parent = w
    BY <1>4, <1>5, <1>6, <2>1
  <2> QED
    BY <1>2, <2>2, <2>4, <2>5, StillAwaits
<1> QED
  BY <1>7, <1>8 DEF Asked

(* sys_exit leaves the code of the process with its parent alone.          *)
LEMMA ExitCodes ==
  ASSUME IInv, SafeInv, NEW p \in Proc, NEW rc \in Code, Exit(p, rc)
  PROVE  /\ \A w \in Proc : table'[w].childExitCode =
              IF w = table[p].parent THEN rc ELSE table[w].childExitCode
         /\ \A w \in Proc : owed'[w] =
              IF [blocked |-> w, action |-> "waitpid"] \in table[p].blocks
              THEN rc ELSE owed[w]
<1>1. PICK told \in Table :
        /\ Delete(told, p, rc)
        /\ \A w \in Proc : Same(table[w], told[w])
        /\ \A w \in Proc : told[w].childExitCode =
             IF w = table[p].parent THEN rc ELSE table[w].childExitCode
  BY ExitTold
<1>2. /\ Deleted(told, p, rc) \in Table
      /\ SameCodes(told, Deleted(told, p, rc))
  BY DeletedCodes
<1>3. SameCodes(told, table')
  <2>1. CASE ~told[p].vforkContext
    <3>1. table' = Deleted(told, p, rc)
      BY <1>1, <2>1 DEF Delete
    <3> QED
      BY <1>2, <3>1
  <2>2. CASE told[p].vforkContext
    <3>1. table' = SetNext(scheduler, Deleted(told, p, rc), told[p].parent).table
      BY <1>1, <2>2 DEF Delete
    <3>2. told[p].parent \in Proc
      BY <1>1, <2>2 DEF IInv, TableOK, Same, SameTies
    <3>3. SameCodes(Deleted(told, p, rc), table')
      BY <1>2, <3>1, <3>2, Types, SetNextCodes
    <3> QED
      BY <1>2, <3>3 DEF SameCodes
  <2> QED
    BY <2>1, <2>2
<1>4. \A w \in Proc : owed'[w] =
        IF [blocked |-> w, action |-> "waitpid"] \in table[p].blocks THEN rc ELSE owed[w]
  BY <1>1 DEF Delete, Same, SameTies
<1> QED
  BY <1>1, <1>3, <1>4 DEF SameCodes

(* ... that it has ended, and then its code is the last one left.          *)
LEMMA ExitAsked ==
  ASSUME IInv, SafeInv, Asked, NEW p \in Proc, NEW rc \in Code, Exit(p, rc)
  PROVE  Asked'
<1>1. /\ p \in Listed /\ Listed' = Listed \ {p}
      /\ SameOrigin(table[p], table'[p])
      /\ \A w \in Proc \ {p} :
           /\ SameOrigin(table[w], table'[w]) /\ table'[w].blocks = table[w].blocks
           /\ table'[w].blockedBy = table[w].blockedBy \ {p}
  BY ExitTold, DeleteTable
<1>2. mode = "running" /\ pc[p] = "user"
  BY DEF Exit, MayEnd, Executes
<1>3. \A w \in Proc : pc'[w] = "waitpid" => pc[w] = "waitpid"
  BY ExitSafe DEF IInv, Others
<1>4. \A w \in Proc : table'[w].parent = table[w].parent
  BY <1>1 DEF SameOrigin
<1>5. OneChild'
  BY <1>1, <1>4, Types, NoMoreChildren DEF Asked
<1>6. ASSUME NEW w \in Proc, pc'[w] = "waitpid" PROVE Awaits(w)'
  <2>1. w # p /\ Awaits(w) /\ w # Null
    BY <1>2, <1>3, <1>6, NullAssumption DEF Asked
  <2>2. /\ table'[w].childExitCode = IF w = table[p].parent THEN rc ELSE table[w].childExitCode
        /\ owed'[w] = IF [blocked |-> w, action |-> "waitpid"] \in table[p].blocks
                      THEN rc ELSE owed[w]
    BY ExitCodes
  <2>3. CASE p \in table[w].blockedBy
    <3>1. /\ table[p].parent = w
          /\ [blocked |-> w, action |-> "waitpid"] \in table[p].blocks
      BY <2>1, <2>3 DEF Awaits
    <3>2. owed'[w] = table'[w].childExitCode
      BY <2>2, <3>1
    <3>3. \A q \in Listed : table[q].parent = w => q = p
      BY <1>1, <2>1, <3>1 DEF Asked, OneChild
    <3>4. \A q \in Listed' : table'[q].parent # w
      BY <1>1, <1>4, <3>3, Types
    <3>5. table'[w].blockedBy = {}
      <4>1. \A q \in table[w].blockedBy : q \in Listed /\ table[q].parent = w
        BY <2>1, AwaitedListed DEF Awaits
      <4> QED
        BY <1>1, <2>1, <3>3, <4>1
    <3> QED
      BY <3>2, <3>4, <3>5 DEF Awaits
  <2>4. CASE p \notin table[w].blockedBy
    <3>1. table'[w].blockedBy = table[w].blockedBy
      BY <1>1, <2>1, <2>4, ZenonT(40)
    <3>2. [blocked |-> w, action |-> "waitpid"] \notin table[p].blocks
      BY <2>4 DEF SafeInv, WaitsInv, WaitersKnown
    <3>3. table[w].blockedBy = {} => table[p].parent # w
      BY <1>1, <2>1 DEF Awaits
    <3>4. \A q \in table[w].blockedBy : q \in Proc \ {p}
      BY <2>4, AwaitedListed
    <3> QED
      BY <1>1, <1>4, <2>1, <2>2, <3>1, <3>2, <3>3, <3>4, Types DEF Awaits
  <2> QED
    BY <2>3, <2>4
<1> QED
  BY <1>5, <1>6 DEF Asked

(* The context switch destroys processes that have left the list.          *)
LEMMA ReapCodes ==
  ASSUME IInv, SafeInv, StartRoot \/ ContextSwitch
  PROVE  \A w \in Listed : table'[w].childExitCode = table[w].childExitCode
<1>1. /\ Survivors \in Table
      /\ \A w \in Listed : w \in Proc /\ Survivors[w] = table[w]
  BY Destroyed, Types
<1>2. SameCodes(Survivors, table')
  <2>1. CASE table' = Survivors
    BY <2>1 DEF SameCodes
  <2>2. CASE SetNextTask(ScheduleNextProcess.scheduler, Survivors)
    <3> DEFINE s == ScheduleNextProcess.scheduler
    <3>1. s \in Scheduler
      BY ScheduleNextProcessType DEF IInv
    <3> HIDE DEF s
    <3>2. CASE GetNext(s) = Null
      BY <2>2, <3>2 DEF SetNextTask, SameCodes, s
    <3>3. CASE GetNext(s) # Null
      <4>1. s.next \in Proc /\ s = [s EXCEPT !.next = s.next]
        BY <3>1, <3>3 DEF GetNext, Scheduler
      <4>2. table' = UpdateCurrent(s, Survivors).table
        BY <2>2, <3>3 DEF SetNextTask, s
      <4>3. table' = SetNext(s, Survivors, s.next).table
        BY <4>1, <4>2 DEF SetNext
      <4> QED
        BY <1>1, <3>1, <4>1, <4>3, SetNextCodes
    <3> QED
      BY <3>2, <3>3
  <2> QED
    BY <2>1, <2>2 DEF StartRoot, ContextSwitch
<1> QED
  BY <1>1, <1>2 DEF SameCodes

LEMMA ReapAsked ==
  ASSUME IInv, SafeInv, Asked, StartRoot \/ ContextSwitch
  PROVE  Asked'
<1>1. /\ mode \in {"boot", "running"} /\ Listed' = Listed /\ UNCHANGED <<pc, owed>>
      /\ \A w \in Listed : w \in Proc /\ SameTies(table[w], table'[w])
  BY StartRootSafe, ContextSwitchSafe, Types DEF DeadDestroyed, StartRoot, ContextSwitch
<1>2. \A w \in Listed : table'[w].childExitCode = table[w].childExitCode
  BY ReapCodes
<1>3. OneChild'
  BY <1>1, NoMoreChildren DEF Asked, SameTies
<1>4. ASSUME NEW w \in Proc, pc'[w] = "waitpid" PROVE Awaits(w)'
  <2>1. Awaits(w) /\ w \in Listed
    BY <1>1, <1>4 DEF Asked, SafeInv, PlacesInv
  <2>2. \A q \in table[w].blockedBy : q \in Listed
    BY AwaitedListed
  <2> QED
    BY <1>1, <1>2, <2>1, <2>2, StillAwaits DEF SameTies
<1> QED
  BY <1>3, <1>4 DEF Asked

LEMMA InitAsked == Init => Asked
<1> SUFFICES ASSUME Init PROVE Asked
  OBVIOUS
<1> DEFINE root == CHOOSE p \in Proc : TRUE
<1>1. processes = <<root>> /\ \A p \in Proc : pc[p] = "user"
  BY DEF Init
<1> HIDE DEF root
<1>2. Listed = {root}
  BY <1>1 DEF Listed, ToSet
<1> QED
  BY <1>1, <1>2 DEF Asked, OneChild

LEMMA NextAsked ==
  ASSUME Habits \cap {"siblings", "strangerWait", "abort", "reExec"} = {},
         IInv, SafeInv, SafeInv', Asked, [Next]_vars
  PROVE  Asked'
<1>1. CASE UNCHANGED vars
  BY <1>1 DEF vars, Asked, OneChild, Awaits, Listed
<1>2. CASE StartRoot \/ ContextSwitch
  BY <1>2, ReapAsked
<1>3. ASSUME NEW p \in Proc, EndFaults(p) PROVE Asked'
  <2>1. ObjectsKept /\ UNCHANGED processes /\ mode' \notin {"boot", "running"}
    BY <1>3, EndFaultsSafe DEF EndFaults, EndFault
  <2>2. Listed' = Listed
    BY <2>1 DEF Listed
  <2> QED
    BY <2>1, <2>2, Types, NoMoreChildren DEF Asked, ObjectsKept
<1>4. ASSUME NEW p \in Proc, SystemCall(p) PROVE Asked'
  BY <1>3, <1>4, VforkAsked, GateCallsAsked, ExecAsked, ExecsOnce, ExitAsked,
     WaitpidBeginAsked, WaitpidUnknownAsked DEF SystemCall, Kill
<1>5. ASSUME NEW p \in Proc, KernelStep(p) PROVE Asked'
  BY <1>5, GateCallsAsked, WaitpidSpinAsked, WaitpidReturnAsked, CreateAppendAsked
     DEF KernelStep
<1> QED
  BY <1>1, <1>2, <1>4, <1>5 DEF Next

(* Who executes waitpid leaves it by returning.                            *)
LEMMA OnlyByReturn ==
  ASSUME IInv, NEW w \in Proc, Executes(w, "waitpid"), pc'[w] = "user", [Next]_vars
  PROVE  WaitpidReturn(w)
<1>1. core = w /\ pc[w] = "waitpid"
  BY DEF Executes
<1>2. CASE UNCHANGED vars \/ StartRoot \/ ContextSwitch
  BY <1>1, <1>2 DEF vars, StartRoot, ContextSwitch
<1>3. ASSUME NEW p \in Proc PROVE ~SystemCall(p)
  <2>1. ~Executes(p, "user")
    BY <1>1 DEF Executes
  <2> QED
    BY <2>1 DEF SystemCall, Vfork, VforkWithoutPid, VforkOutOfMemory, Exec, ReExec,
       ExecFaults, RefusedCall, Exit, Kill, EndFaults, MayEnd, WaitpidBegin,
       WaitpidUnknown, CreateTakePid
<1>4. ASSUME NEW p \in Proc, KernelStep(p) PROVE WaitpidReturn(w)
  BY <1>1, <1>4 DEF KernelStep, ExitSpin, WaitpidSpin, WaitpidReturn, CreateAppend,
     CreateOutOfMemory, Executes
<1> QED
  BY <1>2, <1>3, <1>4 DEF Next

LEMMA ReturnReports ==
  ASSUME IInv, SafeInv, Asked, NEW p \in Proc, WaitpidReturn(p)
  PROVE  table'[p].status = owed[p]
<1>1. /\ InOrder /\ mode = "running" /\ pc[p] = "waitpid" /\ p \in Listed
      /\ table[p].state # "Blocked"
  BY Executing DEF WaitpidReturn, Executes, Location
<1>2. table[p].blockedBy = {} /\ Awaits(p)
  BY <1>1 DEF InOrder, StatesInv, Asked
<1> QED
  BY <1>2, WaitpidReturnTable DEF Awaits

(* As long as a process has one child at a time, waits for children only,  *)
(* ends by sys_exit and calls exec once, waitpid reports the code of the   *)
(* very process it was asked for.  Each of the first three habits does     *)
(* break it: the code is returned through one cell of the parent, which    *)
(* every child overwrites and only sys_exit writes.                        *)
THEOREM WaitpidIsRight ==
  ASSUME Habits \cap {"siblings", "strangerWait", "abort", "reExec"} = {}
  PROVE  Spec => WaitpidReportsItsChild
<1>1. IInv /\ SafeInv /\ SafeInv' /\ Asked /\ [Next]_vars => Asked'
  BY NextAsked
<1>2. IInv /\ SafeInv /\ Asked /\ [Next]_vars =>
        [\A p \in Proc : Executes(p, "waitpid") /\ pc'[p] = "user"
           => table'[p].status = owed[p]]_vars
  BY OnlyByReturn, ReturnReports
<1>3. Spec => []SafeInv
  BY SpecSafeInv
<1> QED
  BY <1>1, <1>2, <1>3, InitAsked, SpecIInv, PTL DEF Spec, WaitpidReportsItsChild
=============================================================================
