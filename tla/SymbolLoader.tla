---------------------------- MODULE SymbolLoader ----------------------------
(***************************************************************************)
(* The debugger's command yasld-load (yasld_gdb.py) beside a target whose  *)
(* loader logs where the sections of a module are: the command reads the   *)
(* log as far as it has been captured, removes the symbol files it added   *)
(* before and adds one for each module, one gdb command at a time.         *)
(*                                                                         *)
(* A load is known by a number; the address of a section is the number of  *)
(* the load that put it there, or the placeholder when there is nothing.   *)
(* gdb, its user and the serial line are external.                         *)
(***************************************************************************)
EXTENDS Integers, Sequences, FiniteSets, SequencesExt

CONSTANTS
  Modules,      \* the names of modules
  Mapped,       \* those ELF_MAP has a file for; the file has the same name
  Empties,      \* the sections a load may have nothing in
  MaxLoads,     \* bound: the number of loads
  Objfiles      \* bound: the symbol files gdb can have at once

ASSUME ModulesAssumption == Mapped \subseteq Modules /\ MaxLoads \in Nat

(* The sections in the order the loader logs them, and those the command   *)
(* names beside .text.                                                     *)
Logged == <<".text", ".plt", ".data", ".bss", ".got">>
Named == {".data", ".bss", ".rodata", ".plt", ".got"}
Placeholder == 0
Nowhere == -1

VARIABLES
  loads,        \* every load: its module, its empty sections, sections logged
  log,          \* the lines captured
  last,         \* module -> the addresses of its last load, when all are whole
  libs,         \* what the command found in it: module -> section -> address
  loadedFiles,  \* _loaded_files
  todo,         \* the gdb commands to come
  pc,           \* what the command does
  symbols,      \* the symbol files gdb has: which, of what file, addresses
  missed        \* history: files gdb has that an interrupt kept out of the list

target == <<loads, log>>
command == <<last, libs, loadedFiles, todo, pc>>
debugger == <<symbols, missed>>
vars == <<target, command, debugger>>
-----------------------------------------------------------------------------
(* The end of load_module: five lines, one by one; several processes may   *)
(* be loading.  gdb takes commands while the target is halted.             *)
Halted == pc # "idle"
StartLoad ==
  /\ ~Halted /\ Len(loads) < MaxLoads
  /\ \E m \in Modules, none \in Empties :
       loads' = Append(loads, [module |-> m, none |-> none, logged |-> 0])
  /\ UNCHANGED <<log, command, debugger>>

Line(k) ==
  LET s == Logged[loads[k].logged + 1]
  IN  [module |-> loads[k].module, section |-> s, load |-> k,
       addr |-> IF s \in loads[k].none THEN Placeholder ELSE k]
LogSection ==
  /\ ~Halted
  /\ \E k \in DOMAIN loads :
       /\ loads[k].logged < Len(Logged)
       /\ loads' = [loads EXCEPT ![k].logged = @ + 1]
       /\ log' = Append(log, Line(k))
  /\ UNCHANGED <<command, debugger>>

(* A reset ends all loads; a new capture starts with an empty log.         *)
Reset ==
  /\ ~Halted
  /\ loads' = [k \in DOMAIN loads |-> [loads[k] EXCEPT !.logged = Len(Logged)]]
  /\ log' \in {log, <<>>}
  /\ UNCHANGED <<command, debugger>>
-----------------------------------------------------------------------------
(* Mutant: the first address instead of the last.                          *)
FirstOf(lines, m, s) ==
  LET k == SelectInSeq(lines, LAMBDA l : l.module = m /\ l.section = s)
  IN  IF k = 0 THEN Nowhere ELSE lines[k].addr
(* parse_log: a dictionary of dictionaries, in which a later line of the   *)
(* same module and section replaces an earlier one.                        *)
LastOf(lines, m, s) ==
  LET k == SelectLastInSeq(lines, LAMBDA l : l.module = m /\ l.section = s)
  IN  IF k = 0 THEN Nowhere ELSE lines[k].addr
SectionsOf(lines, m) == [s \in {".text"} \cup Named |-> LastOf(lines, m, s)]
ParseLog(lines) ==
  [m \in {lines[j].module : j \in DOMAIN lines} |-> SectionsOf(lines, m)]

(* generate_commands: one for each module with an ELF file and a .text;    *)
(* sections without an address are left out.                               *)
IsAddress(a) == a \notin {Placeholder, Nowhere}
CommandFor(m, sections) ==
  [file |-> m,
   at |-> Restrict(sections, {s \in DOMAIN sections : IsAddress(sections[s])})]
GenerateCommands(found) ==
  {CommandFor(m, found[m]) :
     m \in {x \in DOMAIN found : x \in Mapped /\ IsAddress(found[x][".text"])}}
-----------------------------------------------------------------------------
(* History: the last load a log has a line of, for each module; and for    *)
(* the modules whose last load is in the log with all its lines, none of   *)
(* another load of the module among or after them, where it put what.      *)
LastLoad(m, lines) ==
  lines[SelectLastInSeq(lines, LAMBDA l : l.module = m)].load
Whole(m, lines) ==
  LET k == LastLoad(m, lines)
      Of(j) == lines[j].load = k
  IN  /\ \E j \in DOMAIN lines : lines[j].module = m
      /\ \A s \in Range(Logged) :
           \E j \in DOMAIN lines : Of(j) /\ lines[j].section = s
      /\ \A i, j \in DOMAIN lines :
           lines[i].module = m /\ ~Of(i) /\ Of(j) => i < j
LastLoads(lines) ==
  [m \in {x \in Modules : Whole(x, lines)} |->
     LET k == LastLoad(m, lines)
     IN  [s \in Range(Logged) \ loads[k].none |-> k]]

(* The command reads the log; without an entry it returns.                 *)
(* Mutant: forgets the file that was added last.                           *)
FilesButTheLast == IF loadedFiles = <<>> THEN <<>> ELSE Front(loadedFiles)
FilesToRemove == loadedFiles
Invoke ==
  /\ ~Halted
  /\ DOMAIN ParseLog(log) # {}
  /\ last' = LastLoads(log)
  /\ libs' = ParseLog(log)
  /\ todo' = FilesToRemove
  /\ pc' = "remove"
  /\ UNCHANGED <<target, loadedFiles, debugger>>

(* gdb drops a symbol file; a file that has none left is not missed.       *)
Drop(o) ==
  /\ symbols' = symbols \ {o}
  /\ missed' = {f \in missed : \E q \in symbols' : q.file = f}

(* remove-symbol-file; that gdb does not know the file is ignored, and of  *)
(* two of the same file one is dropped.                                    *)
RemoveFile ==
  /\ pc = "remove" /\ todo # <<>>
  /\ \/ \E o \in symbols : o.file = Head(todo) /\ Drop(o)
     \/ /\ \A o \in symbols : o.file # Head(todo)
        /\ UNCHANGED debugger
  /\ todo' = Tail(todo)
  /\ UNCHANGED <<target, last, libs, loadedFiles, pc>>

(* The commands are given in the order of the dictionary, the modules'     *)
(* first lines.                                                            *)
InOrder(commands) ==
  LET FirstLine(m) == SelectInSeq(log, LAMBDA l : l.module = m)
  IN  \A i, j \in DOMAIN commands :
        i < j => FirstLine(commands[i].file) < FirstLine(commands[j].file)
ClearFiles ==
  /\ pc = "remove" /\ todo = <<>>
  /\ loadedFiles' = <<>>
  /\ todo' \in {q \in SetToSeqs(GenerateCommands(libs)) : InOrder(q)}
  /\ pc' = "add"
  /\ UNCHANGED <<target, last, libs, debugger>>

(* add-symbol-file; when gdb refuses, say because the file does not exist, *)
(* the error is reported.  What gdb has added is put on the list by the    *)
(* next statements.                                                        *)
AddFile ==
  /\ pc = "add" /\ todo # <<>>
  /\ \/ /\ \E n \in Objfiles \ {o.objfile : o \in symbols} :
             symbols' = symbols \cup {[objfile |-> n, file |-> Head(todo).file,
                                      at |-> Head(todo).at]}
        /\ pc' = "note"
        /\ UNCHANGED todo
     \/ /\ todo' = Tail(todo)
        /\ UNCHANGED <<symbols, pc>>
  /\ UNCHANGED <<target, last, libs, loadedFiles, missed>>

(* Mutant: the file is not remembered.                                     *)
NotRemembered(file) == loadedFiles
Remembered(file) == Append(loadedFiles, file)
NoteFile ==
  /\ pc = "note"
  /\ loadedFiles' = Remembered(Head(todo).file)
  /\ todo' = Tail(todo)
  /\ pc' = "add"
  /\ UNCHANGED <<target, last, libs, debugger>>

Done ==
  /\ pc = "add" /\ todo = <<>>
  /\ pc' = "done"
  /\ UNCHANGED <<target, last, libs, loadedFiles, todo, debugger>>

(* The command ends, and with it what it has read.                         *)
End == pc' = "idle" /\ todo' = <<>> /\ libs' = <<>> /\ last' = <<>>
Return ==
  /\ pc = "done"
  /\ End
  /\ UNCHANGED <<target, loadedFiles, debugger>>

(* Only errors of gdb are caught: an interrupt ends the command.  Between  *)
(* adding a file and noting it, it leaves one that no call will remove.    *)
Interrupt ==
  /\ pc \in {"remove", "add", "note"}
  /\ missed' = missed \cup (IF pc = "note" THEN {Head(todo).file} ELSE {})
  /\ End
  /\ UNCHANGED <<target, loadedFiles, symbols>>
-----------------------------------------------------------------------------
(* The user removes symbols by hand.                                       *)
RemoveByHand ==
  /\ ~Halted
  /\ \E o \in symbols : Drop(o)
  /\ UNCHANGED <<target, command>>
-----------------------------------------------------------------------------
Init == /\ loads = <<>> /\ log = <<>> /\ last = <<>> /\ libs = <<>>
        /\ loadedFiles = <<>> /\ todo = <<>> /\ pc = "idle"
        /\ symbols = {} /\ missed = {}

Target == StartLoad \/ LogSection \/ Reset
Command == \/ Invoke \/ RemoveFile \/ ClearFiles \/ AddFile \/ NoteFile
           \/ Done \/ Return \/ Interrupt
Next == Target \/ Command \/ RemoveByHand

Spec == Init /\ [][Next]_vars
-----------------------------------------------------------------------------
(* The files whose symbols an interrupt caught between gdb and the list    *)
(* (yasld_gdb.py:180-183) stay out of account while gdb has any of them:   *)
(* they may be old, and there twice.  Of all others:                       *)
AsCommand(o) == [file |-> o.file, at |-> o.at]

(* when the command is done, gdb has nothing but what the log it read says:*)
(* no symbols of an earlier capture, none twice, none at an older address; *)
NothingStale ==
  pc = "done" =>
    \A o \in symbols :
      o.file \notin missed =>
        /\ AsCommand(o) \in GenerateCommands(libs)
        /\ \A q \in symbols : q.file = o.file => q = o

(* at no time gdb has symbols of the command that the next call would not  *)
(* remove, whatever gdb refused and wherever else the last one was         *)
(* interrupted;                                                            *)
NothingForgotten ==
  \A o \in symbols :
    \/ \E k \in DOMAIN loadedFiles : loadedFiles[k] = o.file
    \/ pc = "note" /\ o.file = Head(todo).file
    \/ o.file \in missed

(* if the log the command read has all lines of a module's last load, none *)
(* of another load of the module among or after them, the addresses gdb    *)
(* got are all and only those of that load.                                *)
AddressesOfLastLoad ==
  pc = "done" =>
    \A o \in symbols : o.file \in DOMAIN last \ missed => o.at = last[o.file]
=============================================================================
