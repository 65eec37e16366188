------------------------ MODULE SymbolLoader_proofs ------------------------
(***************************************************************************)
(* The debugger's command, for any modules and any number of loads: what   *)
(* gdb has when the command is done, what it has at any time, and where    *)
(* the symbols are.                                                        *)
(***************************************************************************)
EXTENDS SymbolLoader, FiniteSetTheorems, SequenceTheorems, WellFoundedInduction, TLAPS

-----------------------------------------------------------------------------
(* What the last line is.                                                  *)

(* A set of positions has a last one.                                      *)
LEMMA MaxIsGreatest ==
  ASSUME NEW n \in Nat, NEW T, T \subseteq 1..n, T # {}
  PROVE  Max(T) \in T /\ \A y \in T : Max(T) >= y
<1>1. PICK less : /\ IsWellFoundedOn(less, Nat)
                  /\ \A x, y \in Nat : y < x => <<y, x>> \in less
  <2>1. \A x, y \in Nat : y < x => <<y, x>> \in OpToRel(<, Nat)
    BY DEF OpToRel
  <2> QED
    BY <2>1, NatLessThanWellFounded, Zenon
<1> DEFINE Back == {d \in Nat : n - d \in T}
<1>2. Back \subseteq Nat /\ Back # {}
  <2>1. PICK x \in T : TRUE
    OBVIOUS
  <2>2. n - x \in Back
    BY <2>1
  <2> QED
    BY <2>2
<1>3. PICK d \in Back : \A y \in Back : ~(<<y, d>> \in less)
  <2> HIDE DEF Back
  <2> QED
    BY <1>1, <1>2, WFMin
<1>4. \A y \in T : n - d >= y
  <2> SUFFICES ASSUME NEW y \in T, ~(n - d >= y) PROVE FALSE
    OBVIOUS
  <2>1. n - y \in Back /\ d \in Nat /\ n - y < d
    OBVIOUS
  <2>2. n - y \in Nat
    BY <2>1
  <2> HIDE DEF Back
  <2> QED
    BY <1>1, <1>3, <2>1, <2>2, Zenon
<1>5. \E x \in T : \A y \in T : x >= y
  <2>1. n - d \in T
    OBVIOUS
  <2> QED
    BY <1>4, <2>1
<1> QED
  BY <1>5 DEF Max

(* The last line of a module, if it has one.                               *)
LastLineOf(m, lines) == SelectLastInSeq(lines, LAMBDA l : l.module = m)
LEMMA LastLineIsLast ==
  ASSUME NEW S, NEW lines \in Seq(S), NEW m,
         \E j \in DOMAIN lines : lines[j].module = m
  PROVE  /\ LastLineOf(m, lines) \in DOMAIN lines
         /\ lines[LastLineOf(m, lines)].module = m
         /\ \A j \in DOMAIN lines : lines[j].module = m => LastLineOf(m, lines) >= j
<1> DEFINE I == {i \in 1..Len(lines) : lines[i].module = m}
<1>1. I # {} /\ I \subseteq 1..Len(lines) /\ Len(lines) \in Nat
  OBVIOUS
<1>2. LastLineOf(m, lines) = Max(I)
  BY <1>1 DEF LastLineOf, SelectLastInSeq
<1>3. Max(I) \in I /\ \A y \in I : Max(I) >= y
  <2> HIDE DEF I
  <2> QED
    BY <1>1, MaxIsGreatest
<1> QED
  BY <1>2, <1>3

(* What the dictionary holds: the address of the last line.                *)
LEMMA LastOfIsLast ==
  ASSUME NEW S, NEW lines \in Seq(S), NEW m, NEW s
  PROVE  \/ /\ LastOf(lines, m, s) = Nowhere
            /\ \A j \in DOMAIN lines : ~(lines[j].module = m /\ lines[j].section = s)
         \/ \E k \in DOMAIN lines :
              /\ LastOf(lines, m, s) = lines[k].addr
              /\ lines[k].module = m /\ lines[k].section = s
              /\ \A j \in DOMAIN lines :
                   lines[j].module = m /\ lines[j].section = s => k >= j
<1> DEFINE I == {i \in 1..Len(lines) : lines[i].module = m /\ lines[i].section = s}
           k == SelectLastInSeq(lines, LAMBDA l : l.module = m /\ l.section = s)
<1>1. I \subseteq 1..Len(lines) /\ Len(lines) \in Nat
  OBVIOUS
<1>2. k = IF I # {} THEN Max(I) ELSE 0
  BY DEF SelectLastInSeq
<1>3. LastOf(lines, m, s) = IF k = 0 THEN Nowhere ELSE lines[k].addr
  BY DEF LastOf
<1>4. CASE I = {}
  <2>1. k = 0
    BY <1>2, <1>4
  <2>2. LastOf(lines, m, s) = Nowhere
    <3> HIDE DEF k
    <3> QED
      BY <1>3, <2>1
  <2> QED
    BY <1>4, <2>2
<1>5. CASE I # {}
  <2>1. Max(I) \in I /\ \A y \in I : Max(I) >= y
    <3> HIDE DEF I
    <3> QED
      BY <1>1, <1>5, MaxIsGreatest
  <2>2. k = Max(I) /\ k # 0
    <3>1. k = Max(I)
      BY <1>2, <1>5
    <3> QED
      BY <2>1, <3>1
  <2>3. /\ k \in DOMAIN lines /\ lines[k].module = m /\ lines[k].section = s
        /\ \A j \in DOMAIN lines :
             lines[j].module = m /\ lines[j].section = s => k >= j
    <3>1. /\ Max(I) \in DOMAIN lines
          /\ lines[Max(I)].module = m /\ lines[Max(I)].section = s
          /\ \A j \in DOMAIN lines :
               lines[j].module = m /\ lines[j].section = s => Max(I) >= j
      BY <2>1
    <3> QED
      BY <2>2, <3>1, Zenon
  <2>4. LastOf(lines, m, s) = lines[k].addr
    <3> HIDE DEF k
    <3> QED
      BY <1>3, <2>2
  <2> QED
    BY <2>3, <2>4, Zenon
<1> QED
  BY <1>4, <1>5

-----------------------------------------------------------------------------
(* The invariant.                                                          *)

(* The target: every line says what its load did.                          *)
LoadEntry == [module : Modules, none : Empties, logged : 0..Len(Logged)]
LogLine == [module : Modules, section : Range(Logged), load : Nat, addr : Nat]
AddrIn(ls, k, s) == IF s \in ls[k].none THEN Placeholder ELSE k
TargetInv ==
  /\ loads \in Seq(LoadEntry) /\ log \in Seq(LogLine)
  /\ \A j \in DOMAIN log :
       LET k == log[j].load
       IN  /\ k \in DOMAIN loads /\ log[j].module = loads[k].module
           /\ log[j].addr = AddrIn(loads, k, log[j].section)

(* The command: what it read and what is to come.                          *)
Reading == {"remove", "add", "note", "done"}
CommandInv ==
  /\ pc \in {"idle"} \cup Reading
  /\ loadedFiles \in Seq(Modules)
  /\ pc = "remove" => todo \in Seq(Modules)
  /\ pc \in {"add", "note"} => /\ todo \in Seq(GenerateCommands(libs))
                              /\ \A i, j \in DOMAIN todo : i # j => todo[i] # todo[j]
  /\ pc = "note" => todo # <<>>
  /\ pc \in Reading =>
       /\ DOMAIN libs \subseteq Modules /\ IsFiniteSet(DOMAIN libs)
       /\ \A c \in GenerateCommands(libs) :
            c.file \in DOMAIN last => c.at = last[c.file]

(* gdb, the missed files left aside: one symbol file for a file; those to  *)
(* be removed are on the way, those added are of this call, and a command  *)
(* to come names another file.                                             *)
Noted == {o \in symbols : o.file \notin missed}
SymbolsInv ==
  /\ \A o, q \in Noted : o.file = q.file => o = q
  /\ NothingForgotten
  /\ pc = "remove" => \A o \in Noted : \E k \in DOMAIN todo : todo[k] = o.file
  /\ pc \in {"add", "note", "done"} => \A o \in Noted : AsCommand(o) \in GenerateCommands(libs)
  /\ pc = "add" => \A k \in DOMAIN todo, o \in Noted : todo[k].file # o.file
  /\ pc = "note" => \A k \in DOMAIN todo, o \in Noted : k # 1 => todo[k].file # o.file

LoaderInv == TargetInv /\ CommandInv /\ SymbolsInv

-----------------------------------------------------------------------------
(* The sections: five are logged, and the command asks for one more.       *)
LEMMA LoggedSections ==
  /\ Range(Logged) = {".text", ".plt", ".data", ".bss", ".got"}
  /\ {".text"} \cup Named = Range(Logged) \cup {".rodata"}
  /\ ".rodata" \notin Range(Logged)
<1>1. DOMAIN Logged = 1..5
  BY DEF Logged
<1>2. 1..5 = {1, 2, 3, 4, 5}
  OBVIOUS
<1>3. Range(Logged) = {Logged[1], Logged[2], Logged[3], Logged[4], Logged[5]}
  BY <1>1, <1>2 DEF Range
<1>4. Range(Logged) = {".text", ".plt", ".data", ".bss", ".got"}
  BY <1>3 DEF Logged
<1> QED
  BY <1>4 DEF Named

(* A command names the module it is for and gives the addresses found.     *)
LEMMA CommandFacts ==
  ASSUME NEW found, NEW c \in GenerateCommands(found)
  PROVE  /\ c.file \in DOMAIN found /\ c.file \in Mapped
         /\ c = CommandFor(c.file, found[c.file])
<1>1. PICK m \in DOMAIN found : m \in Mapped /\ c = CommandFor(m, found[m])
  BY DEF GenerateCommands
<1>2. c.file = m
  BY <1>1 DEF CommandFor
<1> QED
  BY <1>1, <1>2, Zenon

(* One command for a module.                                               *)
LEMMA OneCommandPerFile ==
  ASSUME NEW found, NEW c \in GenerateCommands(found), NEW d \in GenerateCommands(found),
         c.file = d.file
  PROVE  c = d
<1>1. c = CommandFor(c.file, found[c.file])
  BY CommandFacts
<1>2. d = CommandFor(d.file, found[d.file])
  BY CommandFacts
<1> QED
  BY <1>1, <1>2

(* The addresses of a module whose last load is whole in the log are those *)
(* of that load.                                                           *)
LEMMA SectionOfLastLoad ==
  ASSUME TargetInv, NEW m, Whole(m, log), NEW s \in Range(Logged)
  PROVE  LastOf(log, m, s) = AddrIn(loads, LastLoad(m, log), s)
<1> DEFINE k == LastLoad(m, log)
           q == LastLineOf(m, log)
<1>1. log \in Seq(LogLine)
  BY DEF TargetInv
<1>2. q \in DOMAIN log /\ log[q].module = m
  <2>1. \E j \in DOMAIN log : log[j].module = m
    BY DEF Whole
  <2> QED
    BY <1>1, <2>1, LastLineIsLast
<1>3. k = log[q].load
  BY DEF LastLoad, LastLineOf
<1>4. loads[k].module = m
  BY <1>2, <1>3 DEF TargetInv
<1>5. /\ \E j \in DOMAIN log : log[j].load = k /\ log[j].section = s
      /\ \A i, j \in DOMAIN log :
           log[i].module = m /\ log[i].load # k /\ log[j].load = k => i < j
  BY Zenon DEF Whole
<1> HIDE DEF k, q
<1>6. PICK j \in DOMAIN log : log[j].load = k /\ log[j].section = s
  BY <1>5
<1>7. log[j].module = m
  BY <1>4, <1>6 DEF TargetInv
<1>8. PICK i \in DOMAIN log :
        /\ LastOf(log, m, s) = log[i].addr
        /\ log[i].module = m /\ log[i].section = s
        /\ i >= j
  BY <1>1, <1>6, <1>7, LastOfIsLast
<1>9. log[i].load = k
  <2>1. i \in Nat /\ j \in Nat
    BY <1>1
  <2>2. ~(i < j)
    BY <1>8, <2>1
  <2> QED
    BY <1>5, <1>6, <1>8, <2>2, Zenon
<1>10. log[i].addr = AddrIn(loads, k, s)
  BY <1>8, <1>9 DEF TargetInv
<1> QED
  BY <1>8, <1>10 DEF k

(* So the command for it gives all and only the addresses of that load.    *)
LEMMA CommandOfLastLoad ==
  ASSUME TargetInv, NEW c \in GenerateCommands(ParseLog(log)),
         c.file \in DOMAIN LastLoads(log)
  PROVE  c.at = LastLoads(log)[c.file]
<1> DEFINE m == c.file
           k == LastLoad(m, log)
           found == SectionsOf(log, m)
           given == {s \in DOMAIN found : IsAddress(found[s])}
<1>1. m \in Modules /\ Whole(m, log)
  BY DEF LastLoads
<1>2. LastLoads(log)[m] = [s \in Range(Logged) \ loads[k].none |-> k]
  BY <1>1 DEF LastLoads
<1>3. c.at = Restrict(found, given)
  <2>1. m \in DOMAIN ParseLog(log) /\ c = CommandFor(m, ParseLog(log)[m])
    BY CommandFacts
  <2>2. ParseLog(log)[m] = found
    BY <2>1 DEF ParseLog
  <2> HIDE DEF m
  <2>3. c.at = CommandFor(m, found).at
    BY <2>1, <2>2
  <2> QED
    BY <2>3 DEF CommandFor
<1>4. log \in Seq(LogLine)
  BY DEF TargetInv
<1>5. k \in Nat \ {0}
  <2>1. \E j \in DOMAIN log : log[j].module = m
    BY <1>1 DEF Whole
  <2>2. LastLineOf(m, log) \in DOMAIN log
    BY <1>4, <2>1, LastLineIsLast
  <2>3. k \in DOMAIN loads
    BY <2>2 DEF TargetInv, LastLoad, LastLineOf
  <2> QED
    BY <2>3 DEF TargetInv
<1>6. \A s \in Range(Logged) : LastOf(log, m, s) = AddrIn(loads, k, s)
  BY <1>1, SectionOfLastLoad
<1>7. LastOf(log, m, ".rodata") = Nowhere
  <2>1. \A j \in DOMAIN log : log[j].section # ".rodata"
    <3> SUFFICES ASSUME NEW j \in DOMAIN log PROVE log[j].section # ".rodata"
      OBVIOUS
    <3>1. log[j] \in LogLine
      BY <1>4
    <3>2. log[j].section \in Range(Logged)
      BY <3>1 DEF LogLine
    <3> QED
      BY <3>2, LoggedSections
  <2> QED
    BY <1>4, <2>1, LastOfIsLast
<1>8. /\ DOMAIN found = Range(Logged) \cup {".rodata"}
      /\ \A s \in DOMAIN found : found[s] = LastOf(log, m, s)
  BY LoggedSections, Zenon DEF SectionsOf
<1> HIDE DEF m, k, found
<1>9. given = Range(Logged) \ loads[k].none
  <2>1. ASSUME NEW s PROVE s \in given <=> s \in Range(Logged) \ loads[k].none
    <3>1. CASE s = ".rodata"
      BY <1>7, <1>8, <3>1, LoggedSections DEF IsAddress
    <3>2. CASE s \in Range(Logged)
      BY <1>5, <1>6, <1>8, <3>2 DEF IsAddress, AddrIn, Placeholder, Nowhere
    <3>3. CASE s \notin Range(Logged) /\ s # ".rodata"
      BY <1>8, <3>3
    <3> QED
      BY <3>1, <3>2, <3>3
  <2> QED
    BY <2>1
<1>10. \A s \in given : found[s] = k
  BY <1>6, <1>8, <1>9 DEF AddrIn
<1> HIDE DEF given
<1>11. Restrict(found, given) = [s \in given |-> k]
  BY <1>10 DEF Restrict
<1> QED
  BY <1>2, <1>3, <1>9, <1>11 DEF m

-----------------------------------------------------------------------------
(* The lists the command goes through.                                     *)

(* A log names finitely many modules, so the commands are finitely many.   *)
LEMMA FiniteLibs ==
  ASSUME NEW S, NEW lines \in Seq(S)
  PROVE  IsFiniteSet(DOMAIN ParseLog(lines))
<1> DEFINE D == 1..Len(lines)
           M == {lines[j].module : j \in DOMAIN lines}
           f == [j \in D |-> lines[j].module]
<1>1. f \in Surjection(D, M)
  BY DEF Surjection
<1>2. IsFiniteSet(D)
  BY FS_Interval
<1>3. IsFiniteSet(M)
  BY <1>1, <1>2, FS_Surjection
<1> QED
  BY <1>3 DEF ParseLog

LEMMA FiniteCommands ==
  ASSUME NEW found, IsFiniteSet(DOMAIN found)
  PROVE  IsFiniteSet(GenerateCommands(found))
<1> DEFINE shown == {x \in DOMAIN found : x \in Mapped /\ IsAddress(found[x][".text"])}
           f == [m \in shown |-> CommandFor(m, found[m])]
<1>1. f \in Surjection(shown, GenerateCommands(found))
  BY DEF Surjection, GenerateCommands
<1>2. IsFiniteSet(shown)
  BY FS_Subset
<1> QED
  BY <1>1, <1>2, FS_Surjection

(* A finite set put in a sequence: its elements, each at one place.        *)
LEMMA SequenceOfSet ==
  ASSUME NEW S, IsFiniteSet(S), NEW q \in SetToSeqs(S)
  PROVE  q \in Seq(S) /\ \A i, j \in DOMAIN q : i # j => q[i] # q[j]
<1>1. Cardinality(S) \in Nat
  BY FS_CardinalityType
<1>2. /\ q \in [1..Cardinality(S) -> S]
      /\ \A i, j \in 1..Cardinality(S) : i # j => q[i] # q[j]
  BY DEF SetToSeqs
<1> QED
  BY <1>1, <1>2

(* What is left of a sequence after its head.                              *)
LEMMA TailFacts ==
  ASSUME NEW S, NEW q \in Seq(S), q # <<>>
  PROVE  /\ Head(q) = q[1] /\ 1 \in DOMAIN q /\ q[1] \in S /\ Tail(q) \in Seq(S)
         /\ \A i \in DOMAIN Tail(q) : i + 1 \in DOMAIN q /\ Tail(q)[i] = q[i + 1]
         /\ \A i \in DOMAIN q : i # 1 => i - 1 \in DOMAIN Tail(q) /\ Tail(q)[i - 1] = q[i]
OBVIOUS

LEMMA InitLoaderInv == Init => LoaderInv
<1> SUFFICES ASSUME Init PROVE LoaderInv
  OBVIOUS
<1>1. TargetInv
  BY DEF Init, TargetInv
<1>2. CommandInv
  BY DEF Init, CommandInv, Reading
<1>3. SymbolsInv
  BY DEF Init, SymbolsInv, NothingForgotten, Noted
<1> QED
  BY <1>1, <1>2, <1>3 DEF LoaderInv
-----------------------------------------------------------------------------
(* Steps of the target.                                                    *)
LEMMA TargetKeepsTargetInv ==
  ASSUME TargetInv, Target
  PROVE  TargetInv'
<1> USE DEF TargetInv, AddrIn
<1>1. CASE StartLoad
  <2>1. PICK m \in Modules, none \in Empties :
          loads' = Append(loads, [module |-> m, none |-> none, logged |-> 0])
    BY <1>1 DEF StartLoad
  <2>2. [module |-> m, none |-> none, logged |-> 0] \in LoadEntry
    BY DEF LoadEntry, Logged
  <2>3. /\ loads' \in Seq(LoadEntry)
        /\ \A k \in DOMAIN loads : k \in DOMAIN loads' /\ loads'[k] = loads[k]
    BY <2>1, <2>2
  <2>4. log' = log
    BY <1>1 DEF StartLoad
  <2> QED
    BY <2>3, <2>4
<1>2. CASE LogSection
  <2>1. PICK k \in DOMAIN loads :
          /\ loads[k].logged < Len(Logged)
          /\ loads' = [loads EXCEPT ![k].logged = @ + 1]
          /\ log' = Append(log, Line(k))
    BY <1>2 DEF LogSection
  <2>2. loads[k] \in LoadEntry /\ k \in Nat
    BY <2>1
  <2>3. loads[k].logged + 1 \in DOMAIN Logged /\ loads[k].logged + 1 \in 0..Len(Logged)
    BY <2>1, <2>2 DEF LoadEntry, Logged
  <2>4. /\ loads' \in Seq(LoadEntry) /\ DOMAIN loads' = DOMAIN loads
        /\ \A i \in DOMAIN loads : /\ loads'[i].module = loads[i].module
                                   /\ loads'[i].none = loads[i].none
    <3>1. [loads[k] EXCEPT !.logged = @ + 1] \in LoadEntry
      BY <2>2, <2>3 DEF LoadEntry
    <3> QED
      BY <2>1, <2>2, <3>1 DEF LoadEntry
  <2>5. /\ Line(k) \in LogLine /\ Line(k).load = k
        /\ Line(k).module = loads[k].module
        /\ Line(k).addr = AddrIn(loads, k, Line(k).section)
    <3>1. Logged[loads[k].logged + 1] \in Range(Logged)
      BY <2>3 DEF Range
    <3>2. loads[k].module \in Modules
      BY <2>2 DEF LoadEntry
    <3> QED
      BY <2>2, <3>1, <3>2 DEF Line, LogLine, Placeholder
  <2>6. log' \in Seq(LogLine)
    BY <2>1, <2>5
  <2>7. ASSUME NEW j \in DOMAIN log'
        PROVE  LET i == log'[j].load
               IN  /\ i \in DOMAIN loads' /\ log'[j].module = loads'[i].module
                   /\ log'[j].addr = AddrIn(loads', i, log'[j].section)
    <3>1. CASE j \in DOMAIN log
      <4>1. log'[j] = log[j]
        BY <2>1, <3>1
      <4>2. LET i == log[j].load
            IN  /\ i \in DOMAIN loads /\ log[j].module = loads[i].module
                /\ log[j].addr = AddrIn(loads, i, log[j].section)
        BY <3>1
      <4> QED
        BY <2>4, <4>1, <4>2
    <3>2. CASE j \notin DOMAIN log
      <4>1. log'[j] = Line(k)
        BY <2>1, <3>2
      <4> QED
        BY <2>4, <2>5, <4>1
    <3> QED
      BY <3>1, <3>2
  <2> QED
    BY <2>4, <2>6, <2>7
<1>3. CASE Reset
  <2>1. /\ loads' = [k \in DOMAIN loads |-> [loads[k] EXCEPT !.logged = Len(Logged)]]
        /\ log' = log \/ log' = <<>>
    BY <1>3 DEF Reset
  <2>2. /\ loads' \in Seq(LoadEntry) /\ DOMAIN loads' = DOMAIN loads
        /\ \A i \in DOMAIN loads : /\ loads'[i].module = loads[i].module
                                   /\ loads'[i].none = loads[i].none
    <3>1. ASSUME NEW k \in DOMAIN loads
          PROVE  /\ loads'[k] \in LoadEntry
                 /\ loads'[k].module = loads[k].module
                 /\ loads'[k].none = loads[k].none
      <4>1. loads[k] \in LoadEntry
        OBVIOUS
      <4>2. loads'[k] = [loads[k] EXCEPT !.logged = Len(Logged)]
        BY <2>1
      <4>3. Len(Logged) \in 0..Len(Logged)
        BY DEF Logged
      <4> QED
        BY <4>1, <4>2, <4>3 DEF LoadEntry
    <3>2. Len(loads) \in Nat /\ DOMAIN loads = 1..Len(loads)
      OBVIOUS
    <3>3. DOMAIN loads' = DOMAIN loads /\ loads' \in [1..Len(loads) -> LoadEntry]
      BY <2>1, <3>1, <3>2
    <3>4. loads' \in Seq(LoadEntry)
      <4>1. \A n \in Nat : \A f \in [1..n -> LoadEntry] : f \in Seq(LoadEntry)
        OBVIOUS
      <4> QED
        BY <3>2, <3>3, <4>1
    <3> QED
      BY <3>1, <3>3, <3>4
  <2>3. CASE log' = log
    BY <2>2, <2>3
  <2>4. CASE log' = <<>>
    BY <2>2, <2>4
  <2> QED
    BY <2>1, <2>3, <2>4
<1> QED
  BY <1>1, <1>2, <1>3 DEF Target

-----------------------------------------------------------------------------
(* Steps of the command.                                                   *)

(* It reads the log: what it added before is all on the list to remove.    *)
LEMMA InvokeKeepsInv ==
  ASSUME LoaderInv, Invoke
  PROVE  CommandInv' /\ SymbolsInv'
<1> USE DEF LoaderInv
<1>1. /\ pc' = "remove" /\ todo' = loadedFiles /\ loadedFiles' = loadedFiles
      /\ symbols' = symbols /\ missed' = missed /\ pc = "idle"
      /\ libs' = ParseLog(log) /\ last' = LastLoads(log)
  BY DEF Invoke, FilesToRemove, debugger, Halted
<1>2. DOMAIN libs' \subseteq Modules /\ IsFiniteSet(DOMAIN libs')
  <2>1. log \in Seq(LogLine)
    BY DEF TargetInv
  <2>2. IsFiniteSet(DOMAIN ParseLog(log))
    BY <2>1, FiniteLibs
  <2>3. ASSUME NEW j \in DOMAIN log
        PROVE  log[j].module \in Modules
    <3>1. log[j] \in LogLine
      BY <2>1
    <3> QED
      BY <3>1 DEF LogLine
  <2> QED
    BY <1>1, <2>2, <2>3 DEF ParseLog
<1>3. \A c \in GenerateCommands(libs') :
        c.file \in DOMAIN last' => c.at = last'[c.file]
  BY <1>1, CommandOfLastLoad
<1>4. CommandInv'
  BY <1>1, <1>2, <1>3 DEF CommandInv, Reading
<1>5. SymbolsInv'
  BY <1>1 DEF SymbolsInv, NothingForgotten, Noted
<1> QED
  BY <1>4, <1>5

(* What stays when gdb drops a symbol file is missed if it was before.     *)
LEMMA DropFacts ==
  ASSUME NEW o \in symbols, Drop(o)
  PROVE  /\ symbols' = symbols \ {o} /\ Noted' = Noted \ {o}
         /\ \A q \in symbols' : q.file \in missed <=> q.file \in missed'
<1>1. /\ symbols' = symbols \ {o}
      /\ missed' = {f \in missed : \E q \in symbols' : q.file = f}
  BY DEF Drop
<1>2. \A q \in symbols' : q.file \in missed <=> q.file \in missed'
  BY <1>1
<1>3. Noted' = Noted \ {o}
  BY <1>1, <1>2 DEF Noted
<1> QED
  BY <1>1, <1>2, <1>3

(* It removes a file: the one symbol file of it, if there is one.          *)
LEMMA RemoveFileKeepsInv ==
  ASSUME LoaderInv, RemoveFile
  PROVE  CommandInv' /\ SymbolsInv'
<1> USE DEF LoaderInv
<1>1. /\ pc = "remove" /\ pc' = "remove" /\ todo # <<>> /\ todo' = Tail(todo)
      /\ loadedFiles' = loadedFiles /\ libs' = libs /\ last' = last
  BY DEF RemoveFile
<1>2. todo \in Seq(Modules)
  BY <1>1 DEF CommandInv
<1>3. /\ symbols' \subseteq symbols /\ Noted' \subseteq Noted
      /\ \A q \in symbols' : q.file \in missed => q.file \in missed'
      /\ \A o \in Noted' : o.file # Head(todo)
  <2>1. CASE \E o \in symbols : o.file = Head(todo) /\ Drop(o)
    <3>1. PICK o \in symbols : o.file = Head(todo) /\ Drop(o)
      BY <2>1
    <3>2. /\ symbols' = symbols \ {o} /\ Noted' = Noted \ {o}
          /\ \A q \in symbols' : q.file \in missed <=> q.file \in missed'
      BY <3>1, DropFacts
    <3>3. \A q \in Noted : q.file = o.file => q = o
      BY DEF SymbolsInv, Noted
    <3> QED
      BY <3>1, <3>2, <3>3
  <2>2. CASE /\ \A o \in symbols : o.file # Head(todo)
             /\ UNCHANGED debugger
    BY <2>2 DEF debugger, Noted
  <2> QED
    BY <2>1, <2>2 DEF RemoveFile
<1>4. ASSUME NEW o \in Noted'
      PROVE  \E k \in DOMAIN todo' : todo'[k] = o.file
  <2>1. PICK k \in DOMAIN todo : todo[k] = o.file
    BY <1>1, <1>3 DEF SymbolsInv
  <2>2. k # 1
    BY <1>1, <1>2, <1>3, <2>1, TailFacts
  <2>3. k - 1 \in DOMAIN Tail(todo) /\ Tail(todo)[k - 1] = o.file
    BY <1>1, <1>2, <2>1, <2>2, TailFacts
  <2> QED
    BY <1>1, <2>3
<1>5. CommandInv'
  BY <1>1, <1>2, TailFacts DEF CommandInv, Reading
<1>6. NothingForgotten'
  BY <1>1, <1>3 DEF SymbolsInv, NothingForgotten
<1>7. SymbolsInv'
  BY <1>1, <1>3, <1>4, <1>6 DEF SymbolsInv
<1> QED
  BY <1>5, <1>7

(* All are removed: gdb has no symbols of the command any more, but of the *)
(* missed files.                                                           *)
LEMMA ClearFilesKeepsInv ==
  ASSUME LoaderInv, ClearFiles
  PROVE  CommandInv' /\ SymbolsInv'
<1> USE DEF LoaderInv
<1>1. /\ pc = "remove" /\ pc' = "add" /\ todo = <<>> /\ loadedFiles' = <<>>
      /\ todo' \in SetToSeqs(GenerateCommands(libs))
      /\ libs' = libs /\ last' = last /\ symbols' = symbols /\ missed' = missed
  BY DEF ClearFiles, debugger
<1>2. Noted = {} /\ Noted' = {} /\ \A o \in symbols' : o.file \in missed'
  <2>1. Noted = {}
    BY <1>1 DEF SymbolsInv
  <2> QED
    BY <1>1, <2>1 DEF Noted
<1>3. IsFiniteSet(GenerateCommands(libs))
  BY <1>1, FiniteCommands DEF CommandInv, Reading
<1>4. /\ todo' \in Seq(GenerateCommands(libs))
      /\ \A i, j \in DOMAIN todo' : i # j => todo'[i] # todo'[j]
  BY <1>1, <1>3, SequenceOfSet
<1>5. GenerateCommands(libs') = GenerateCommands(libs)
  BY <1>1
<1>6. CommandInv'
  BY <1>1, <1>4, <1>5 DEF CommandInv, Reading
<1>7. SymbolsInv'
  BY <1>1, <1>2 DEF SymbolsInv, NothingForgotten
<1> QED
  BY <1>6, <1>7

(* One command less to come: all different still, and of other files than *)
(* the one that has been handled.                                          *)
LEMMA OneLess ==
  ASSUME CommandInv, pc \in {"add", "note"}, todo # <<>>
  PROVE  /\ todo[1] \in GenerateCommands(libs) /\ todo[1].file \in Modules
         /\ Head(todo) = todo[1] /\ 1 \in DOMAIN todo
         /\ Tail(todo) \in Seq(GenerateCommands(libs))
         /\ \A k \in DOMAIN Tail(todo) :
              k + 1 \in DOMAIN todo /\ k + 1 # 1 /\ Tail(todo)[k] = todo[k + 1]
         /\ \A i, j \in DOMAIN Tail(todo) : i # j => Tail(todo)[i] # Tail(todo)[j]
         /\ \A k \in DOMAIN todo : k # 1 => todo[k].file # todo[1].file
<1>1. /\ todo \in Seq(GenerateCommands(libs))
      /\ \A i, j \in DOMAIN todo : i # j => todo[i] # todo[j]
  BY DEF CommandInv
<1>2. /\ Head(todo) = todo[1] /\ 1 \in DOMAIN todo /\ todo[1] \in GenerateCommands(libs)
      /\ Tail(todo) \in Seq(GenerateCommands(libs))
      /\ \A k \in DOMAIN Tail(todo) : k + 1 \in DOMAIN todo /\ Tail(todo)[k] = todo[k + 1]
  BY <1>1, TailFacts
<1>3. todo[1].file \in Modules
  <2>1. DOMAIN libs \subseteq Modules
    BY DEF CommandInv, Reading
  <2> QED
    BY <1>2, <2>1, CommandFacts
<1>4. \A k \in DOMAIN Tail(todo) : k \in Nat /\ k + 1 # 1
  BY <1>2
<1>5. ASSUME NEW i \in DOMAIN Tail(todo), NEW j \in DOMAIN Tail(todo), i # j
      PROVE  Tail(todo)[i] # Tail(todo)[j]
  <2>1. i + 1 # j + 1
    BY <1>4, <1>5
  <2> QED
    BY <1>1, <1>2, <2>1
<1>6. ASSUME NEW k \in DOMAIN todo, k # 1 PROVE todo[k].file # todo[1].file
  <2>1. todo[k] # todo[1] /\ todo[k] \in GenerateCommands(libs)
    BY <1>1, <1>2, <1>6
  <2> QED
    BY <1>2, <2>1, OneCommandPerFile
<1> QED
  BY <1>2, <1>3, <1>4, <1>5, <1>6

(* gdb gets a file that, unless it was missed before, it has not, or it    *)
(* refuses it.                                                             *)
LEMMA AddFileKeepsInv ==
  ASSUME LoaderInv, AddFile
  PROVE  CommandInv' /\ SymbolsInv'
<1> USE DEF LoaderInv
<1>1. /\ pc = "add" /\ todo # <<>> /\ libs' = libs /\ last' = last
      /\ loadedFiles' = loadedFiles /\ missed' = missed
  BY DEF AddFile
<1>2. /\ todo[1] \in GenerateCommands(libs) /\ Head(todo) = todo[1] /\ 1 \in DOMAIN todo
      /\ Tail(todo) \in Seq(GenerateCommands(libs))
      /\ \A k \in DOMAIN Tail(todo) :
           k + 1 \in DOMAIN todo /\ k + 1 # 1 /\ Tail(todo)[k] = todo[k + 1]
      /\ \A i, j \in DOMAIN Tail(todo) : i # j => Tail(todo)[i] # Tail(todo)[j]
      /\ \A k \in DOMAIN todo : k # 1 => todo[k].file # todo[1].file
  BY <1>1, OneLess
<1>3. \A k \in DOMAIN todo, o \in Noted : todo[k].file # o.file
  BY <1>1 DEF SymbolsInv
<1>4. CASE pc' = "add" /\ todo' = Tail(todo) /\ symbols' = symbols
  <2>1. Noted' = Noted
    BY <1>1, <1>4 DEF Noted
  <2>2. CommandInv'
    BY <1>1, <1>2, <1>4 DEF CommandInv, Reading
  <2>3. \A k \in DOMAIN todo', o \in Noted' : todo'[k].file # o.file
    BY <1>2, <1>3, <1>4, <2>1
  <2>4. NothingForgotten'
    BY <1>1, <1>4 DEF SymbolsInv, NothingForgotten
  <2> QED
    BY <1>1, <1>4, <2>1, <2>2, <2>3, <2>4 DEF SymbolsInv
<1>5. CASE /\ pc' = "note" /\ todo' = todo
           /\ \E n : symbols' = symbols \cup {[objfile |-> n, file |-> Head(todo).file,
                                               at |-> Head(todo).at]}
  <2>1. PICK n : symbols' = symbols \cup {[objfile |-> n, file |-> todo[1].file,
                                           at |-> todo[1].at]}
    BY <1>2, <1>5
  <2> DEFINE new == [objfile |-> n, file |-> todo[1].file, at |-> todo[1].at]
  <2>2. AsCommand(new) = todo[1] /\ new.file = todo[1].file
    <3>1. todo[1] = CommandFor(todo[1].file, libs[todo[1].file])
      BY <1>2, CommandFacts
    <3>2. todo[1] = [file |-> todo[1].file, at |-> todo[1].at]
      BY <3>1 DEF CommandFor
    <3> QED
      BY <3>2 DEF AsCommand
  <2>3. Noted' \subseteq Noted \cup {new} /\ symbols' = symbols \cup {new}
    BY <1>1, <2>1 DEF Noted
  <2> HIDE DEF new
  <2>4. CommandInv'
    BY <1>1, <1>5 DEF CommandInv, Reading
  <2>5. \A o \in Noted : o.file # new.file
    BY <1>2, <1>3, <2>2
  <2>6. \A o, q \in Noted' : o.file = q.file => o = q
    BY <2>3, <2>5 DEF SymbolsInv
  <2>7. NothingForgotten'
    BY <1>1, <1>2, <1>5, <2>2, <2>3 DEF SymbolsInv, NothingForgotten
  <2>8. \A o \in Noted' : AsCommand(o) \in GenerateCommands(libs')
    BY <1>1, <1>2, <2>2, <2>3 DEF SymbolsInv
  <2>9. \A k \in DOMAIN todo', o \in Noted' : k # 1 => todo'[k].file # o.file
    BY <1>2, <1>3, <1>5, <2>2, <2>3
  <2> QED
    BY <1>5, <2>4, <2>6, <2>7, <2>8, <2>9 DEF SymbolsInv
<1> QED
  BY <1>1, <1>4, <1>5 DEF AddFile

(* The command puts the file it has added on its list.                     *)
LEMMA NoteFileKeepsInv ==
  ASSUME LoaderInv, NoteFile
  PROVE  CommandInv' /\ SymbolsInv'
<1> USE DEF LoaderInv
<1>1. /\ pc = "note" /\ pc' = "add" /\ todo' = Tail(todo) /\ libs' = libs /\ last' = last
      /\ loadedFiles' = Append(loadedFiles, Head(todo).file)
      /\ symbols' = symbols /\ missed' = missed /\ Noted' = Noted
  BY DEF NoteFile, Remembered, debugger, Noted
<1>2. todo # <<>> /\ loadedFiles \in Seq(Modules)
  BY <1>1 DEF CommandInv
<1>3. /\ Head(todo) = todo[1] /\ todo[1].file \in Modules
      /\ Tail(todo) \in Seq(GenerateCommands(libs))
      /\ \A k \in DOMAIN Tail(todo) :
           k + 1 \in DOMAIN todo /\ k + 1 # 1 /\ Tail(todo)[k] = todo[k + 1]
      /\ \A i, j \in DOMAIN Tail(todo) : i # j => Tail(todo)[i] # Tail(todo)[j]
  BY <1>1, <1>2, OneLess
<1>4. CommandInv'
  BY <1>1, <1>2, <1>3 DEF CommandInv, Reading
<1>5. NothingForgotten'
  <2>1. /\ Len(loadedFiles) + 1 \in DOMAIN loadedFiles'
        /\ loadedFiles'[Len(loadedFiles) + 1] = Head(todo).file
        /\ \A k \in DOMAIN loadedFiles : k \in DOMAIN loadedFiles'
                                        /\ loadedFiles'[k] = loadedFiles[k]
    BY <1>1, <1>2
  <2> QED
    BY <1>1, <2>1 DEF SymbolsInv, NothingForgotten
<1>6. \A k \in DOMAIN todo', o \in Noted' : todo'[k].file # o.file
  BY <1>1, <1>3 DEF SymbolsInv
<1>7. SymbolsInv'
  BY <1>1, <1>5, <1>6 DEF SymbolsInv
<1> QED
  BY <1>4, <1>7

(* The command ends, by itself or interrupted, or the user removes symbols.*)
LEMMA EndKeepsInv ==
  ASSUME LoaderInv, Done \/ Return \/ Interrupt \/ RemoveByHand
  PROVE  CommandInv' /\ SymbolsInv'
<1> USE DEF LoaderInv
<1>1. CASE Done
  <2>1. /\ pc = "add" /\ pc' = "done" /\ UNCHANGED <<last, libs, loadedFiles, symbols, missed>>
        /\ Noted' = Noted
    BY <1>1 DEF Done, debugger, Noted
  <2> QED
    BY <2>1 DEF CommandInv, SymbolsInv, NothingForgotten, Reading
<1>2. CASE Return
  <2>1. /\ pc = "done" /\ pc' = "idle" /\ UNCHANGED <<loadedFiles, symbols, missed>>
        /\ Noted' = Noted
    BY <1>2 DEF Return, End, debugger, Noted
  <2> QED
    BY <2>1 DEF CommandInv, SymbolsInv, NothingForgotten, Reading
<1>3. CASE Interrupt
  <2>1. /\ pc' = "idle" /\ UNCHANGED <<loadedFiles, symbols>>
        /\ missed' = missed \cup (IF pc = "note" THEN {Head(todo).file} ELSE {})
    BY <1>3 DEF Interrupt, End
  <2>2. Noted' \subseteq Noted
    BY <2>1 DEF Noted
  <2>3. NothingForgotten'
    BY <2>1 DEF SymbolsInv, NothingForgotten
  <2> QED
    BY <2>1, <2>2, <2>3 DEF CommandInv, SymbolsInv, Reading
<1>4. CASE RemoveByHand
  <2>1. PICK o \in symbols : Drop(o)
    BY <1>4 DEF RemoveByHand
  <2>2. /\ symbols' = symbols \ {o} /\ Noted' = Noted \ {o}
        /\ \A q \in symbols' : q.file \in missed <=> q.file \in missed'
    BY <2>1, DropFacts
  <2>3. pc = "idle" /\ UNCHANGED <<last, libs, loadedFiles, todo, pc>>
    BY <1>4 DEF RemoveByHand, Halted, command
  <2>4. NothingForgotten'
    BY <2>2, <2>3 DEF SymbolsInv, NothingForgotten
  <2> QED
    BY <2>2, <2>3, <2>4 DEF CommandInv, SymbolsInv, Reading
<1> QED
  BY <1>1, <1>2, <1>3, <1>4
-----------------------------------------------------------------------------
LEMMA NextLoaderInv == LoaderInv /\ [Next]_vars => LoaderInv'
<1> SUFFICES ASSUME LoaderInv, [Next]_vars PROVE LoaderInv'
  OBVIOUS
<1>1. ASSUME UNCHANGED <<command, debugger>>
      PROVE  CommandInv' /\ SymbolsInv'
  <2>1. UNCHANGED <<last, libs, loadedFiles, todo, pc, symbols, missed>> /\ Noted' = Noted
    BY <1>1 DEF command, debugger, Noted
  <2> QED
    BY <2>1 DEF LoaderInv, CommandInv, SymbolsInv, NothingForgotten
<1>2. ASSUME UNCHANGED target
      PROVE  TargetInv'
  BY <1>2 DEF LoaderInv, TargetInv, target
<1>3. CASE Target
  <2>1. UNCHANGED <<command, debugger>>
    BY <1>3 DEF Target, StartLoad, LogSection, Reset
  <2> QED
    BY <1>1, <1>3, <2>1, TargetKeepsTargetInv DEF LoaderInv
<1>4. CASE Command
  <2>1. UNCHANGED target
    BY <1>4 DEF Command, Invoke, RemoveFile, ClearFiles, AddFile, NoteFile, Done, Return,
                Interrupt
  <2>2. CommandInv' /\ SymbolsInv'
    BY <1>4, InvokeKeepsInv, RemoveFileKeepsInv, ClearFilesKeepsInv, AddFileKeepsInv,
       NoteFileKeepsInv, EndKeepsInv DEF Command
  <2> QED
    BY <1>2, <2>1, <2>2 DEF LoaderInv
<1>5. CASE RemoveByHand
  <2>1. UNCHANGED target
    BY <1>5 DEF RemoveByHand
  <2> QED
    BY <1>2, <1>5, <2>1, EndKeepsInv DEF LoaderInv
<1>6. CASE UNCHANGED vars
  <2>1. UNCHANGED target /\ UNCHANGED <<command, debugger>>
    BY <1>6 DEF vars
  <2> QED
    BY <1>1, <1>2, <2>1 DEF LoaderInv
<1> QED
  BY <1>3, <1>4, <1>5, <1>6 DEF Next

LEMMA AlwaysLoaderInv == Spec => []LoaderInv
BY InitLoaderInv, NextLoaderInv, PTL DEF Spec
-----------------------------------------------------------------------------
(* When the command is done, gdb has no symbols but those the log it read  *)
(* asks for, each once: nothing of an earlier call, whatever gdb refused   *)
(* and wherever that one was interrupted, but between adding a file and    *)
(* noting it (invoke, yasld_gdb.py:139-186).                               *)
THEOREM SymbolsAreFresh == Spec => []NothingStale
<1>1. LoaderInv => NothingStale
  BY DEF LoaderInv, SymbolsInv, NothingStale, Noted
<1> QED
  BY <1>1, AlwaysLoaderInv, PTL

(* Symbols the command added are at every moment on its list of loaded     *)
(* files, so the next call removes them (_loaded_files), the file just     *)
(* added and those interrupted at that very place excepted.                *)
THEOREM SymbolsAreRemembered == Spec => []NothingForgotten
<1>1. LoaderInv => NothingForgotten
  BY DEF LoaderInv, SymbolsInv
<1> QED
  BY <1>1, AlwaysLoaderInv, PTL

(* The addresses gdb has of a module are those of its last load, when the  *)
(* log holds that load whole and nothing of another load of the module     *)
(* among or after its lines, however the lines of other modules mix with   *)
(* them (parse_log and generate_commands, yasld_gdb.py:67-120), and no     *)
(* earlier call was interrupted between adding and noting its file.        *)
THEOREM SymbolsAreWhereLoaded == Spec => []AddressesOfLastLoad
<1>1. LoaderInv => AddressesOfLastLoad
  <2> SUFFICES ASSUME LoaderInv, pc = "done", NEW o \in symbols,
                      o.file \in DOMAIN last, o.file \notin missed
               PROVE  o.at = last[o.file]
    BY DEF AddressesOfLastLoad
  <2>1. AsCommand(o) \in GenerateCommands(libs)
    BY DEF LoaderInv, SymbolsInv, Noted
  <2>2. AsCommand(o).file \in DOMAIN last => AsCommand(o).at = last[AsCommand(o).file]
    BY <2>1 DEF LoaderInv, CommandInv, Reading
  <2> QED
    BY <2>2 DEF AsCommand
<1> QED
  BY <1>1, AlwaysLoaderInv, PTL
=============================================================================
