------------------------------- MODULE MkImage -------------------------------
(***************************************************************************)
(* The converter mkimage.py, with elf_parser.py and relocation_set.py: it  *)
(* turns a linked ELF file into the image the dynamic loader runs.  One    *)
(* action stands for one method of Application, or for one turn of its     *)
(* loop over the relocations; wherever the Python code raises, the         *)
(* conversion ends and writes nothing.                                     *)
(*                                                                         *)
(* Addresses and sizes are counted in words, so an entry of the GOT takes  *)
(* two.  The Thumb bit of code addresses is left out.                      *)
(***************************************************************************)
EXTENDS Integers, Sequences, TLC

CONSTANTS
  Elfs,       \* the linked files that may be converted, under their names
  Kinds,      \* values of --type; "none" stands for a missing option
  Extras,     \* values of --libraries
  MaxAddress, \* the last address of a linked file
  MaxOffset   \* the largest offset a field of 16 bits of the header holds

Section == {"text", "init", "plt", "rodata", "data", "bss", "got", "gotplt", "extab",
            "exidx"}
Undefined == "SHN_UNDEF"

Symbol == [name : STRING, type : STRING, binding : STRING, visibility : STRING,
           section : Section \cup {Undefined, "SHN_ABS"}, value : Nat]
NoSymbol == [name |-> "None", type |-> "None", binding |-> "None",
             visibility |-> "None", section |-> Undefined, value |-> 0]
Relocation == [type : STRING, offset : Nat, symbol : Symbol \cup {NoSymbol}]

(* An ELF file: the sections it has, their sizes (0 without the section)   *)
(* and addresses, the words the linker put at the addresses, the dynamic   *)
(* symbols, all relocations, the needed libraries and the entry point.     *)
ASSUME ElfAssumption ==
  \A f \in DOMAIN Elfs :
    LET e == Elfs[f] IN
    /\ e.has \subseteq Section
    /\ e.size \in [Section -> Nat] /\ e.addr \in [Section -> Nat]
    /\ \A s \in Section \ e.has : e.size[s] = 0
    /\ e.word \in [0..MaxAddress -> Nat]
    /\ \A s \in Section : e.addr[s] + e.size[s] <= MaxAddress + 1
    /\ e.dynsym \in Seq(Symbol) /\ e.relocations \in Seq(Relocation)
    /\ e.needed \in Seq(STRING) /\ e.entry \in Nat
(* The linker puts .rodata directly before .data; nothing checks it.       *)
ASSUME RodataAssumption ==
  \A f \in DOMAIN Elfs : "rodata" \in Elfs[f].has =>
    Elfs[f].addr["rodata"] + Elfs[f].size["rodata"] = Elfs[f].addr["data"]
(* The word an ABS32 relocation is about lies on the same side of the start*)
(* of the data as its symbol.                                              *)
StartOfData(e) == IF "rodata" \in e.has THEN e.addr["rodata"] ELSE e.addr["data"]
ASSUME AddendAssumption ==
  \A f \in DOMAIN Elfs : \A i \in DOMAIN Elfs[f].relocations :
    LET e == Elfs[f]
        r == e.relocations[i]
    IN  r.type = "R_ARM_ABS32" /\ r.offset \in 0..MaxAddress =>
          (e.word[r.offset] < StartOfData(e) <=> r.symbol.value < StartOfData(e))
(* An entry of the GOT is filled through its first word, and between the   *)
(* code with its literals and the GOT there is more than one word.         *)
ASSUME SlotAssumption ==
  \A f \in DOMAIN Elfs : \A i \in DOMAIN Elfs[f].relocations :
    LET e == Elfs[f]
        r == e.relocations[i]
        distance == r.offset - e.addr["got"]
    IN  "got" \in e.has =>
          /\ r.type \in {"R_ARM_GLOB_DAT", "R_ARM_JUMP_SLOT"} => distance % 2 = 0
          /\ r.type = "R_ARM_RELATIVE" /\ distance \in 0..e.size["got"] - 1 =>
               distance % 2 = 0
          /\ r.type = "R_ARM_GOT_BREL" => distance < -1
ASSUME BoundAssumption == MaxAddress \in Nat /\ MaxOffset \in Nat

VARIABLES
  input, kind, extra,   \* the arguments of the call
  phase,                \* the method to run next
  symbols,              \* self.symbols, with their localization
  relocs,               \* the RelocationSet
  next,                 \* the relocation the loop is at
  exported, imported,   \* the two symbol tables
  libs,                 \* the libraries the module depends on
  image                 \* the file written

vars == <<input, kind, extra, phase, symbols, relocs, next, exported, imported, libs,
          image>>
arguments == <<input, kind, extra>>

elf == Elfs[input]
NoImage == [written |-> FALSE]
Named(table, n) == {i \in DOMAIN table : table[i].name = n}

(* The elements of a sequence at some of its places, in their order.       *)
Select(s, places) ==
  LET upTo[n \in 0..Len(s)] ==
        IF n = 0 THEN <<>>
        ELSE IF n \in places THEN Append(upTo[n - 1], s[n]) ELSE upTo[n - 1]
  IN  upTo[Len(s)]
(* Where a name occurs for the first time.                                 *)
FirstOnes(table) ==
  {i \in DOMAIN table : \A j \in 1..i - 1 : table[j].name # table[i].name}
-----------------------------------------------------------------------------
(* The dictionary of symbols ElfParser returns: a name stands where it     *)
(* first occurs, with what its last occurrence says.                       *)
ParsedSymbols(e) ==
  LET firsts == Select(e.dynsym, FirstOnes(e.dynsym))
      Last(n) == CHOOSE i \in Named(e.dynsym, n) : \A j \in Named(e.dynsym, n) : j <= i
  IN  [k \in DOMAIN firsts |-> e.dynsym[Last(firsts[k].name)]]

(* Where a section has to be: behind the sections that come before it.     *)
Address ==
  LET n == elf.size
      plt == n.text + n.init
      data == plt + n.plt + n.rodata
      got == data + n.data + n.bss
  IN  [text |-> 0, init |-> n.text, plt |-> plt, data |-> data, bss |-> data + n.data,
       got |-> got, gotplt |-> got + n.got, extab |-> got + n.got + n.gotplt,
       exidx |-> got + n.got + n.gotplt + n.extab]

(* .rodata may lie anywhere.                                               *)
SectionsAccepted ==
  /\ {"text", "data", "bss"} \subseteq elf.has
  /\ \A s \in elf.has \ {"rodata"} : elf.addr[s] = Address[s]

(* The data of the image is .rodata, if there is one, and .data.           *)
DataLength == elf.size["rodata"] + elf.size["data"]
(* Mutant: .data is where the data starts.                                 *)
DataStartWithoutRodata == elf.addr["data"]
DataStart == StartOfData(elf)
DataWord(i) == IF i < elf.size["rodata"] THEN elf.word[elf.addr["rodata"] + i]
               ELSE elf.word[elf.addr["data"] + i - elf.size["rodata"]]
InitStart == IF "init" \in elf.has THEN elf.addr["init"] ELSE 0

FetchSections ==
  /\ phase = "fetch"
  /\ phase' = IF SectionsAccepted THEN "symbols" ELSE "failed"
  /\ UNCHANGED <<arguments, symbols, relocs, next, exported, imported, libs, image>>
-----------------------------------------------------------------------------
Kept(s) == s.name \notin {"", "$t", "$d"} /\ s.type # "STT_FILE"
MainIsEntry == LET s == ParsedSymbols(elf)
               IN  \E i \in Named(s, "main") : s[i].value = elf.entry

Visible(s) == \/ s.binding \in {"STB_GLOBAL", "STB_WEAK"} /\ s.visibility # "STV_HIDDEN"
              \/ s.name = "main"
(* Of an executable only main can be exported, if it is the entry.         *)
Localization(s) ==
  CASE Visible(s) /\ s.section = Undefined -> "imported"
    [] /\ Visible(s) /\ s.section # Undefined
       /\ kind = "executable" => s.name = "main" /\ MainIsEntry -> "exported"
    [] OTHER -> "internal"

(* Without --type the attribute is_executable does not exist.              *)
ProcessSymbols ==
  LET all == ParsedSymbols(elf)
      kept == Select(all, {i \in DOMAIN all : Kept(all[i])})
      asksForKind == \E i \in DOMAIN kept :
                       Visible(kept[i]) /\ kept[i].section # Undefined
  IN  /\ phase = "symbols"
      /\ IF kind = "none" /\ asksForKind
         THEN phase' = "failed" /\ UNCHANGED symbols
         ELSE /\ phase' = "relocations"
              /\ symbols' = [i \in DOMAIN kept |->
                   [name |-> kept[i].name, section |-> kept[i].section,
                    value |-> kept[i].value, localization |-> Localization(kept[i])]]
      /\ UNCHANGED <<arguments, relocs, next, exported, imported, libs, image>>
-----------------------------------------------------------------------------
(* An entry of the RelocationSet and what add_local_relocation,            *)
(* add_symbol_table_relocation and add_data_relocation make of one.        *)
Entry(type, r, index, offset, isExported) ==
  [type |-> type, name |-> r.symbol.name, value |-> r.symbol.value,
   section |-> r.symbol.section, index |-> index, offset |-> offset,
   exported |-> isExported]

AddLocalRelocation(r) ==
  relocs' = [relocs EXCEPT
    !.list = Append(@, Entry("local", r, relocs.index, r.offset, FALSE)),
    !.index = @ + 1]

(* int((offset - got_start) / 8): towards zero, an entry being two words.  *)
GotIndex(offset) ==
  LET d == offset - elf.addr["got"]
  IN  IF d >= 0 THEN d \div 2 ELSE -((-d) \div 2)

AddSymbolTableRelocation(r, isExported) ==
  LET new == Entry("symbol_table", r, GotIndex(r.offset), r.offset, isExported)
  IN  relocs' = IF Named(relocs.list, r.symbol.name) # {}
                THEN [relocs EXCEPT !.omitted = Append(@, new)]
                ELSE [relocs EXCEPT !.list = Append(@, new)]

AddDataRelocation(r, from, target) ==
  relocs' = [relocs EXCEPT !.list = Append(@, Entry("data", r, from, target, FALSE))]
-----------------------------------------------------------------------------
SkippedForGot ==
  {"R_ARM_CALL", "R_ARM_JUMP24", "R_ARM_THM_JUMP24", "R_ARM_THM_CALL", "R_ARM_ABS32",
   "R_ARM_PREL31", "R_ARM_TARGET1", "R_ARM_REL32", "R_ARM_NONE", "R_ARM_THM_JUMP8",
   "R_ARM_THM_JUMP11", "R_ARM_RELATIVE"}
ForGot == {"R_ARM_GOT_BREL", "R_ARM_JUMP_SLOT", "R_ARM_GLOB_DAT"}

Current == elf.relocations[next]
LocalizationOf(n) == symbols[CHOOSE i \in Named(symbols, n) : TRUE].localization

(* One turn of the loop of __process_relocations: an unknown symbol is a   *)
(* KeyError, an unknown type is reported.                                  *)
ProcessRelocation ==
  /\ phase = "relocations" /\ next <= Len(elf.relocations)
  /\ \/ /\ Current.type \in SkippedForGot
        /\ next' = next + 1
        /\ UNCHANGED <<phase, relocs>>
     \/ /\ Current.type \in ForGot
        /\ Named(symbols, Current.symbol.name) # {}
        /\ LET loc == LocalizationOf(Current.symbol.name)
           IN  IF Current.type = "R_ARM_GOT_BREL" /\ loc = "internal"
               THEN AddLocalRelocation(Current)
               ELSE AddSymbolTableRelocation(Current, loc = "exported")
        /\ next' = next + 1
        /\ UNCHANGED phase
     \/ /\ Current.type \notin SkippedForGot
        /\ Current.type \in ForGot => Named(symbols, Current.symbol.name) = {}
        /\ phase' = "failed"
        /\ UNCHANGED <<relocs, next>>
  /\ UNCHANGED <<arguments, symbols, exported, imported, libs, image>>

(* __process_elf_file asks for the address of .got, there or not.          *)
EndRelocations ==
  /\ phase = "relocations" /\ next > Len(elf.relocations)
  /\ phase' = IF "got" \in elf.has THEN "data" ELSE "failed"
  /\ next' = 1
  /\ UNCHANGED <<arguments, symbols, relocs, exported, imported, libs, image>>
-----------------------------------------------------------------------------
(* The codes of sections in the image.                                     *)
CodeSection == 0
DataSection == 1
InitSection == 2

(* offset << 2 | code                                                      *)
Encoded(offset, code) == 4 * offset + code

(* A RELATIVE relocation: the word it is about, in .data (counted from the *)
(* end when the offset is negative) or in .got, is a linked address.       *)
(* Mutant: forgets that the file has no words for .bss.                    *)
RelativeWordBehindData(from) ==
  IF from < DataLength
  THEN DataWord(IF from < 0 THEN DataLength + from ELSE from)
  ELSE elf.word[elf.addr["got"] + from - DataLength]
RelativeWord(from) ==
  IF from < DataLength
  THEN DataWord(IF from < 0 THEN DataLength + from ELSE from)
  ELSE elf.word[DataStart + from]
RelativeReadable(from) ==
  \/ -DataLength <= from /\ from < DataLength
  \/ /\ DataLength + elf.size["bss"] <= from
     /\ from < DataLength + elf.size["bss"] + elf.size["got"]
(* Mutant: takes every address for one of data.                            *)
RelativeTargetInData(w) == Encoded(w - DataStart, DataSection)
RelativeTarget(w) == IF w < DataStart THEN Encoded(w, CodeSection)
                     ELSE Encoded(w - DataStart, DataSection)

(* An ABS32 relocation lies in .data or else in .init_arrays; the symbol's *)
(* address decides whether the word there points to code.                  *)
AbsoluteInData(r) == r.offset >= DataStart
AbsoluteFrom(r) == r.offset - (IF AbsoluteInData(r) THEN DataStart ELSE InitStart)
AbsoluteReadable(r) ==
  /\ r.symbol.section \in elf.has
  /\ AbsoluteFrom(r) >= 0
  /\ AbsoluteFrom(r) < (IF AbsoluteInData(r) THEN DataLength ELSE elf.size["init"])
AbsoluteTarget(r) ==
  LET base == IF AbsoluteInData(r) THEN DataStart ELSE InitStart
      w == IF AbsoluteInData(r) THEN DataWord(AbsoluteFrom(r))
           ELSE elf.word[InitStart + AbsoluteFrom(r)]
  IN  IF r.symbol.value < base THEN Encoded(w, CodeSection)
      ELSE Encoded(w - base, IF AbsoluteInData(r) THEN DataSection ELSE InitSection)

(* What becomes a data relocation.                                         *)
Absolute(r) == r.type = "R_ARM_ABS32" /\ Named(symbols, r.symbol.name) # {}
Relative(r) == r.type = "R_ARM_RELATIVE"

(* One turn of the loop of __process_data_relocations.                     *)
ProcessDataRelocation ==
  LET r == Current
      from == r.offset - DataStart
  IN  /\ phase = "data" /\ next <= Len(elf.relocations)
      /\ \/ /\ ~Absolute(r) /\ ~Relative(r)
            /\ next' = next + 1
            /\ UNCHANGED <<phase, relocs>>
         \/ /\ Absolute(r) /\ AbsoluteReadable(r)
            /\ AddDataRelocation(r, AbsoluteFrom(r), AbsoluteTarget(r))
            /\ next' = next + 1
            /\ UNCHANGED phase
         \/ /\ Relative(r) /\ RelativeReadable(from)
            /\ AddDataRelocation(r, from, RelativeTarget(RelativeWord(from)))
            /\ next' = next + 1
            /\ UNCHANGED phase
         \/ /\ Absolute(r) => ~AbsoluteReadable(r)
            /\ Relative(r) => ~RelativeReadable(from)
            /\ Absolute(r) \/ Relative(r)
            /\ phase' = "failed"
            /\ UNCHANGED <<relocs, next>>
      /\ UNCHANGED <<arguments, symbols, exported, imported, libs, image>>

EndDataRelocations ==
  /\ phase = "data" /\ next > Len(elf.relocations)
  /\ phase' = "tables"
  /\ UNCHANGED <<arguments, symbols, relocs, next, exported, imported, libs, image>>
-----------------------------------------------------------------------------
SymbolSection(s) ==
  CASE s.section = "text" -> CodeSection
    [] s.section = "init" -> InitSection
    [] s.section \in {"data", "bss"} -> DataSection
    [] OTHER -> CodeSection       \* None, written like Code

(* What a symbol's section subtracts from its address in the image.        *)
(* Mutant: forgets that the plt lies before the data.                      *)
SymbolBaseWithoutPlt(code) ==
  IF code = DataSection THEN elf.size["text"] + elf.size["init"] ELSE 0
SymbolBase(code) ==
  CASE code = DataSection -> elf.size["text"] + elf.size["init"] + elf.size["plt"]
    [] code = InitSection -> elf.size["text"]
    [] OTHER -> 0

BuildSymbolTables ==
  LET table(loc) == Select(symbols, {i \in DOMAIN symbols : symbols[i].localization = loc})
  IN  /\ phase = "tables"
      /\ exported' = table("exported")
      /\ imported' = table("imported")
      /\ phase' = "libraries"
      /\ UNCHANGED <<arguments, symbols, relocs, next, libs, image>>

ResolveDependantLibraries ==
  /\ phase = "libraries"
  /\ libs' = elf.needed \o extra
  /\ phase' = "build"
  /\ UNCHANGED <<arguments, symbols, relocs, next, exported, imported, image>>
-----------------------------------------------------------------------------
(* __filter_relocations: those of a type, of equal names the first only.   *)
OfType(type) ==
  Select(relocs.list, {i \in DOMAIN relocs.list : relocs.list[i].type = type})
WithoutDuplicates(table) == Select(table, FirstOnes(table))
FilterRelocations(type, skipDuplications) ==
  IF skipDuplications THEN WithoutDuplicates(OfType(type)) ELSE OfType(type)

BinarySymbolTable(table) ==
  [i \in DOMAIN table |->
    LET code == SymbolSection(table[i])
    IN  [word |-> Encoded(table[i].value - SymbolBase(code), code), name |-> table[i].name]]

(* The index of the first symbol of that name, counted from 0.             *)
TableOf(r) == IF r.exported THEN exported ELSE imported
(* Mutant: the place among all symbols instead of the table.               *)
SymbolTableIndexOfAll(r) == (CHOOSE i \in Named(symbols, r.name) : TRUE) - 1
SymbolTableIndex(r) ==
  LET found == Named(TableOf(r), r.name)
  IN  (CHOOSE i \in found : \A j \in found : i <= j) - 1

RelocationSection(r) ==
  CASE r.section = "text" -> CodeSection
    [] r.section = "init" -> InitSection
    [] r.section \in {"data", "bss"} -> DataSection
    [] OTHER -> -1
RelocationBase(code) == CASE code = DataSection -> elf.size["text"] + elf.size["init"]
                          [] code = InitSection -> elf.size["text"]
                          [] OTHER -> 0

SymbolTableWords(r) == [first |-> 2 * r.index + (IF r.exported THEN 1 ELSE 0),
                        second |-> SymbolTableIndex(r)]
LocalWords(r) == LET code == RelocationSection(r)
                 IN  [first |-> Encoded(r.index, code),
                      second |-> r.value - RelocationBase(code)]
DataWords(r) == [first |-> r.index, second |-> r.offset]

(* The words of a section of the file, and the parts of the image behind   *)
(* its tables; the file holds no words for .bss.                           *)
Words(s) == [k \in 1..elf.size[s] |-> elf.word[elf.addr[s] + k - 1]]
Body == Words("text") \o Words("init") \o Words("plt") \o Words("rodata")
          \o Words("data") \o Words("got") \o Words("gotplt") \o Words("extab")
          \o Words("exidx")

(* The header takes 18 words, a name one (a bound), a symbol two; the text *)
(* starts at a multiple of four.                                           *)
HeaderWords == 18
Aligned(n) == 4 * ((n + 3) \div 4)
TextOffset(table) ==
  Aligned(HeaderWords + 1 + Len(libs) + 2 * Len(table)
            + 2 * (Len(imported) + Len(exported)))

Image(slots, locals, datas, table) ==
  [written |-> TRUE,
   type |-> IF kind = "executable" THEN 1 ELSE 2,
   size |-> [s \in {"text", "init", "data", "bss", "got", "gotplt", "plt"} |->
               IF s = "data" THEN DataLength ELSE elf.size[s]],
   entry |-> IF MainIsEntry THEN -1 ELSE elf.entry,
   libraries |-> libs,
   amounts |-> [slots |-> Len(slots), locals |-> Len(locals), datas |-> Len(datas)],
   relocations |-> table,
   imported |-> BinarySymbolTable(imported),
   exported |-> BinarySymbolTable(exported),
   textOffset |-> TextOffset(table),
   body |-> Body]

(* struct.pack refuses negative numbers and offsets above 16 bits.         *)
Packable(table) ==
  /\ \A i \in DOMAIN table : table[i].first >= 0 /\ table[i].second >= 0
  /\ \A t \in {exported, imported} : \A i \in DOMAIN t :
       BinarySymbolTable(t)[i].word >= 0
  /\ TextOffset(table) <= MaxOffset

BuildImage ==
  LET slots == FilterRelocations("symbol_table", TRUE)
      locals == FilterRelocations("local", FALSE)
      datas == FilterRelocations("data", FALSE)
      complete == /\ kind # "none"
                  /\ \A i \in DOMAIN slots : Named(TableOf(slots[i]), slots[i].name) # {}
                  /\ \A i \in DOMAIN locals : RelocationSection(locals[i]) # -1
      table == [i \in DOMAIN slots |-> SymbolTableWords(slots[i])]
                 \o [i \in DOMAIN locals |-> LocalWords(locals[i])]
                 \o [i \in DOMAIN datas |-> DataWords(datas[i])]
  IN  /\ phase = "build"
      /\ IF complete /\ Packable(table)
         THEN phase' = "written" /\ image' = Image(slots, locals, datas, table)
         ELSE phase' = "failed" /\ UNCHANGED image
      /\ UNCHANGED <<arguments, symbols, relocs, next, exported, imported, libs>>
-----------------------------------------------------------------------------
Start ==
  /\ input \in DOMAIN Elfs /\ kind \in Kinds /\ extra \in Extras
  /\ phase = "fetch"
  /\ symbols = <<>>
  /\ relocs = [list |-> <<>>, omitted |-> <<>>, index |-> 0]
  /\ next = 1
  /\ exported = <<>> /\ imported = <<>> /\ libs = <<>>
  /\ image = NoImage

(* execute and __process_elf_file                                          *)
Convert == \/ FetchSections \/ ProcessSymbols
           \/ ProcessRelocation \/ EndRelocations
           \/ ProcessDataRelocation \/ EndDataRelocations
           \/ BuildSymbolTables \/ ResolveDependantLibraries \/ BuildImage

ConvertSpec == Start /\ [][Convert]_vars
-----------------------------------------------------------------------------
(* Without initializers, every data relocation of the set stands for one   *)
(* of the linker's, of its own or of a symbol the image knows: it names    *)
(* the word at that place and decodes to the address found there, be the   *)
(* word in .rodata, .data or .got.  (One that lies before the data gets a  *)
(* negative index, with which no image is written.)                        *)
LeadsTo(target, w) ==
  \/ w < DataStart /\ target % 4 = CodeSection /\ target \div 4 = w
  \/ w >= DataStart /\ target % 4 = DataSection /\ target \div 4 = w - DataStart
EntryLeads(e) ==
  elf.size["init"] = 0 /\ e.type = "data" /\ e.index >= 0 =>
    \E i \in DOMAIN elf.relocations :
      LET r == elf.relocations[i]
      IN  /\ Absolute(r) \/ Relative(r)
          /\ r.offset = DataStart + e.index
          /\ LeadsTo(e.offset, elf.word[r.offset])
DataEntriesLead == \A k \in DOMAIN relocs.list : EntryLeads(relocs.list[k])

(* Each symbol table relocation of the image is about a slot the linker    *)
(* reserved for a symbol and selects the entry of that symbol, from the    *)
(* table of the side that defines it; every symbol with a slot has one,    *)
(* unless a local relocation stands for it.                                *)
EntriesNameTheirSymbol ==
  image.written =>
    LET slots == 1..image.amounts.slots
        rel(k) == image.relocations[k]
        table(k) == IF rel(k).first % 2 = 1 THEN image.exported ELSE image.imported
        name(k) == table(k)[rel(k).second + 1].name
        reserved(n) == {i \in DOMAIN elf.relocations :
                          /\ elf.relocations[i].symbol.name = n
                          /\ elf.relocations[i].type \in ForGot}
    IN  /\ \A k \in slots :
             /\ rel(k).second < Len(table(k))
             /\ \E i \in reserved(name(k)) :
                  elf.relocations[i].offset = elf.addr["got"] + 2 * (rel(k).first \div 2)
        /\ \A i \in DOMAIN elf.relocations :
             elf.relocations[i].type \in {"R_ARM_GLOB_DAT", "R_ARM_JUMP_SLOT"} =>
               \/ \E k \in slots : name(k) = elf.relocations[i].symbol.name
               \/ \E k \in Named(relocs.list, elf.relocations[i].symbol.name) :
                    relocs.list[k].type = "local"
=============================================================================
