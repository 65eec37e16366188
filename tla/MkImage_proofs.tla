--------------------------- MODULE MkImage_proofs ---------------------------
(***************************************************************************)
(* For every set of linked files: what mkimage.py writes leads where the   *)
(* linker's relocations lead and names the symbols they name, and a module *)
(* the loader has loaded from it has its data, its GOT and its exported    *)
(* symbols where the linker meant them, wherever its two parts lie.        *)
(*                                                                         *)
(* ConvertInv relates the lists the converter collects to the relocations  *)
(* its loops have passed, and the image to those lists; LoadInv says what  *)
(* each word of the module's memory is between two steps of the loader.    *)
(***************************************************************************)
EXTENDS YaffLoader, SequenceTheorems, WellFoundedInduction, TLAPS

ListEntry == {Entry(type, r, index, offset, isExported) :
                type \in {"local", "symbol_table", "data"}, r \in Relocation,
                index \in Int, offset \in Int, isExported \in BOOLEAN}

(* What the loops rely on: the relocations collected so far are entries,   *)
(* and later phases are reached with sections that were accepted.          *)
CollectedOK == relocs \in [list : Seq(ListEntry), omitted : Seq(ListEntry), index : Nat]
ArgumentsOK == input \in DOMAIN Elfs /\ next \in Nat \ {0}
AfterDatas == {"tables", "libraries", "build", "written"}
AfterSlots == {"data"} \cup AfterDatas
PhaseOK ==
  /\ phase \in {"fetch", "symbols", "relocations", "failed"} \cup AfterSlots
  /\ phase \notin {"fetch", "failed"} => SectionsAccepted
  /\ phase \in AfterSlots => "got" \in elf.has

(* What the tables of symbols hold.                                        *)
KnownSymbol == [name : STRING, section : Section \cup {Undefined, "SHN_ABS"}, value : Nat,
                localization : {"imported", "exported", "internal"}]
SymbolsOK == /\ symbols \in Seq(KnownSymbol)
             /\ exported \in Seq(KnownSymbol) /\ imported \in Seq(KnownSymbol)

(* An entry for a slot comes from a relocation of the slot.                *)
SlotEntry(e) ==
  e.type = "symbol_table" =>
    \E i \in DOMAIN elf.relocations :
      LET r == elf.relocations[i]
      IN  r.type \in ForGot /\ e.name = r.symbol.name /\ e.index = GotIndex(r.offset)
EntriesOK ==
  /\ phase \in {"fetch", "symbols"} => relocs.list = <<>> /\ next = 1
  /\ phase = "relocations" => \A k \in DOMAIN relocs.list : relocs.list[k].type # "data"
  /\ \A k \in DOMAIN relocs.list : SlotEntry(relocs.list[k])

(* What a loop has done for a relocation once it is behind it.             *)
SlotDone(r) ==
  r.type \in {"R_ARM_GLOB_DAT", "R_ARM_JUMP_SLOT"} =>
    \E k \in DOMAIN relocs.list :
      relocs.list[k].name = r.symbol.name /\ relocs.list[k].type # "data"
DataDone(r) ==
  elf.size["init"] = 0 =>
    /\ Absolute(r) => r.offset >= DataStart /\ r.offset < DataStart + DataLength
    /\ Relative(r) => RelativeReadable(r.offset - DataStart)
    /\ Absolute(r) \/ Relative(r) =>
         \E k \in DOMAIN relocs.list :
           relocs.list[k].type = "data" /\ relocs.list[k].index = r.offset - DataStart
PastSlots(i) == phase \in AfterSlots \/ (phase = "relocations" /\ i < next)
PastDatas(i) == phase \in AfterDatas \/ (phase = "data" /\ i < next)
LoopsOK ==
  \A i \in DOMAIN elf.relocations :
    /\ PastSlots(i) => SlotDone(elf.relocations[i])
    /\ PastDatas(i) => DataDone(elf.relocations[i])

(* The image is made of the tables.                                        *)
SlotTable == FilterRelocations("symbol_table", TRUE)
LocalTable == FilterRelocations("local", FALSE)
DataTable == FilterRelocations("data", FALSE)
AllWords == [i \in DOMAIN SlotTable |-> SymbolTableWords(SlotTable[i])]
              \o [i \in DOMAIN LocalTable |-> LocalWords(LocalTable[i])]
              \o [i \in DOMAIN DataTable |-> DataWords(DataTable[i])]
ImageOK ==
  IF phase = "written"
  THEN /\ \A i \in DOMAIN SlotTable : Named(TableOf(SlotTable[i]), SlotTable[i].name) # {}
       /\ Packable(AllWords)
       /\ image = Image(SlotTable, LocalTable, DataTable, AllWords)
  ELSE image = NoImage

ConvertInv == /\ CollectedOK /\ ArgumentsOK /\ PhaseOK /\ SymbolsOK
              /\ DataEntriesLead /\ EntriesOK /\ LoopsOK /\ ImageOK

-----------------------------------------------------------------------------
(* The memory of a module that is being loaded.  A word of data and bss is *)
(* as it came until the loop over the data relocations has passed one for  *)
(* it; a slot no symbol is bound to is resolved and stays so.              *)
Loading == step \in {"got", "slots", "locals", "datas", "loaded"}
Fresh(i) == IF Size("data") <= i /\ i < GotOffset THEN 0 ELSE elf.word[FlashLength + i]
Patched(i) ==
  /\ step \in {"datas", "loaded"}
  /\ \E j \in DOMAIN DataTable : DataTable[j].index = i /\ (step = "datas" => j < cursor)
DataPart ==
  \A i \in 0..GotOffset - 1 :
    ram[i] = IF Patched(i) THEN RunTime(elf.word[FlashLength + i]) ELSE Fresh(i)
SlotWord(s) == elf.word[FlashLength + Offset(s)]
GotPart ==
  \A s \in Slots :
    /\ step = "got" => ram[Offset(s)] = SlotWord(s)
    /\ step # "got" /\ s >= 3 /\ SlotWord(s) # 0 /\ ~Bound(s) =>
         ram[Offset(s)] = RunTime(SlotWord(s)) /\ ram[Offset(s) + 1] = OwnGot
LoadInv ==
  /\ cursor \in Nat \ {0}
  /\ Loading => /\ image.written /\ elf.size["init"] = 0
                /\ DOMAIN ram = 0..RamLength - 1
                /\ DataPart /\ GotPart
-----------------------------------------------------------------------------
(* A file of the set is what ElfAssumption says.                           *)
LEMMA ElfFacts ==
  ASSUME input \in DOMAIN Elfs
  PROVE  /\ elf.has \subseteq Section
         /\ elf.size \in [Section -> Nat] /\ elf.addr \in [Section -> Nat]
         /\ \A s \in Section \ elf.has : elf.size[s] = 0
         /\ elf.word \in [0..MaxAddress -> Nat]
         /\ \A s \in Section : elf.addr[s] + elf.size[s] <= MaxAddress + 1
         /\ elf.dynsym \in Seq(Symbol) /\ elf.relocations \in Seq(Relocation)
         /\ MaxAddress \in Nat
         /\ "rodata" \in elf.has => elf.addr["rodata"] + elf.size["rodata"] = elf.addr["data"]
BY ElfAssumption, RodataAssumption, BoundAssumption DEF elf

LEMMA AddendFact ==
  ASSUME input \in DOMAIN Elfs, NEW i \in DOMAIN elf.relocations,
         elf.relocations[i].type = "R_ARM_ABS32",
         elf.relocations[i].offset \in 0..MaxAddress
  PROVE  elf.word[elf.relocations[i].offset] < DataStart
           <=> elf.relocations[i].symbol.value < DataStart
BY AddendAssumption DEF elf, DataStart

LEMMA SizesAreNatural ==
  ASSUME input \in DOMAIN Elfs
  PROVE  /\ elf.size["text"] \in Nat /\ elf.size["init"] \in Nat /\ elf.size["plt"] \in Nat
         /\ elf.size["rodata"] \in Nat /\ elf.size["data"] \in Nat
         /\ elf.size["bss"] \in Nat /\ elf.size["got"] \in Nat
         /\ elf.addr["rodata"] \in Nat /\ elf.addr["data"] \in Nat
         /\ elf.addr["init"] \in Nat
         /\ DataLength \in Nat
<1>1. \A s \in Section : elf.size[s] \in Nat /\ elf.addr[s] \in Nat
  BY ElfFacts
<1>2. /\ elf.size["text"] \in Nat /\ elf.size["init"] \in Nat /\ elf.size["plt"] \in Nat
      /\ elf.size["rodata"] \in Nat /\ elf.size["data"] \in Nat
      /\ elf.size["bss"] \in Nat /\ elf.size["got"] \in Nat
  BY <1>1 DEF Section
<1>3. elf.addr["rodata"] \in Nat /\ elf.addr["data"] \in Nat /\ elf.addr["init"] \in Nat
  BY <1>1 DEF Section
<1> QED
  BY <1>2, <1>3 DEF DataLength

(* The relocation a loop is at is one of the file's.                       *)
LEMMA CurrentIsRelocation ==
  ASSUME input \in DOMAIN Elfs, next \in Nat \ {0}, next <= Len(elf.relocations)
  PROVE  /\ next \in DOMAIN elf.relocations
         /\ Current \in Relocation
<1>1. elf.relocations \in Seq(Relocation)
  BY ElfFacts
<1>2. next \in 1..Len(elf.relocations)
  OBVIOUS
<1> QED
  BY <1>1, <1>2 DEF Current

(* .rodata and .data, one behind the other, are the words from DataStart.  *)
LEMMA DataIsWhereItStarts ==
  ASSUME input \in DOMAIN Elfs, NEW i \in Nat, i < DataLength
  PROVE  /\ DataStart + i \in 0..MaxAddress
         /\ DataWord(i) = elf.word[DataStart + i]
         /\ DataWord(i) \in Nat
<1>1. /\ elf.size["rodata"] \in Nat /\ elf.size["data"] \in Nat
      /\ elf.addr["rodata"] \in Nat /\ elf.addr["data"] \in Nat
  BY SizesAreNatural
<1>2. elf.addr["data"] + elf.size["data"] <= MaxAddress + 1
  BY ElfFacts DEF Section
<1>3. DataStart = elf.addr["data"] - elf.size["rodata"]
  <2>1. CASE "rodata" \in elf.has
    BY <2>1, <1>1, ElfFacts DEF DataStart, StartOfData
  <2>2. CASE "rodata" \notin elf.has
    <3>1. elf.size["rodata"] = 0
      BY <2>2, ElfFacts DEF Section
    <3> QED
      BY <2>2, <3>1, <1>1 DEF DataStart, StartOfData
  <2> QED
    BY <2>1, <2>2
<1>4. i < elf.size["rodata"] => elf.addr["rodata"] = DataStart
  <2> SUFFICES ASSUME i < elf.size["rodata"] PROVE elf.addr["rodata"] = DataStart
    OBVIOUS
  <2>1. "rodata" \in elf.has
    <3> SUFFICES ASSUME "rodata" \notin elf.has PROVE FALSE
      OBVIOUS
    <3>1. elf.size["rodata"] = 0
      BY ElfFacts DEF Section
    <3> QED
      BY <3>1
  <2> QED
    BY <2>1 DEF DataStart, StartOfData
<1>5. DataStart \in Nat
  BY <1>1, ElfFacts DEF DataStart, StartOfData
<1>6. DataStart + i \in 0..MaxAddress
  BY <1>1, <1>2, <1>3, <1>5, BoundAssumption DEF DataLength
<1>7. DataWord(i) = elf.word[DataStart + i]
  <2>1. CASE i < elf.size["rodata"]
    BY <2>1, <1>4 DEF DataWord
  <2>2. CASE ~(i < elf.size["rodata"])
    <3>1. elf.addr["data"] + i - elf.size["rodata"] = DataStart + i
      BY <1>1, <1>3
    <3> QED
      BY <2>2, <3>1 DEF DataWord
  <2> QED
    BY <2>1, <2>2
<1>8. elf.word[DataStart + i] \in Nat
  BY <1>6, ElfFacts
<1> QED
  BY <1>6, <1>7, <1>8

(* A word of the data counted from its end is one of the data.             *)
LEMMA RelativeWordFacts ==
  ASSUME input \in DOMAIN Elfs, SectionsAccepted, "got" \in elf.has,
         NEW from \in Int, RelativeReadable(from)
  PROVE  /\ RelativeWord(from) \in Nat
         /\ from >= 0 => RelativeWord(from) = elf.word[DataStart + from]
<1>1. DataLength \in Nat /\ elf.size["bss"] \in Nat
  BY SizesAreNatural
<1>2. CASE from < DataLength
  <2>1. CASE from < 0
    <3>1. DataLength + from \in Nat /\ DataLength + from < DataLength
      BY <1>1, <1>2, <2>1 DEF RelativeReadable
    <3>2. DataWord(DataLength + from) \in Nat
      BY <3>1, DataIsWhereItStarts
    <3> QED
      BY <1>2, <2>1, <3>2 DEF RelativeWord
  <2>2. CASE ~(from < 0)
    <3>1. from \in Nat
      BY <2>2
    <3>2. DataWord(from) \in Nat /\ DataWord(from) = elf.word[DataStart + from]
      BY <1>2, <3>1, DataIsWhereItStarts
    <3> QED
      BY <1>2, <2>2, <3>2 DEF RelativeWord
  <2> QED
    BY <2>1, <2>2
<1>3. CASE ~(from < DataLength)
  <2> DEFINE n == elf.size
  <2>1. /\ n["text"] \in Nat /\ n["init"] \in Nat /\ n["plt"] \in Nat
        /\ n["rodata"] \in Nat /\ n["data"] \in Nat /\ n["bss"] \in Nat /\ n["got"] \in Nat
        /\ elf.addr["rodata"] \in Nat
    BY SizesAreNatural
  <2>2. /\ elf.addr["data"] = n["text"] + n["init"] + n["plt"] + n["rodata"]
        /\ elf.addr["got"] = n["text"] + n["init"] + n["plt"] + n["rodata"] + n["data"] + n["bss"]
    <3>1. elf.addr["data"] = Address["data"] /\ elf.addr["got"] = Address["got"]
      BY DEF SectionsAccepted
    <3>2. Address["data"] = n["text"] + n["init"] + n["plt"] + n["rodata"]
      BY DEF Address
    <3>3. Address["got"] = n["text"] + n["init"] + n["plt"] + n["rodata"] + n["data"] + n["bss"]
      BY DEF Address
    <3> QED
      BY <3>1, <3>2, <3>3
  <2>3. DataStart + n["rodata"] = elf.addr["data"]
    <3>1. CASE "rodata" \in elf.has
      BY <3>1, ElfFacts DEF DataStart, StartOfData
    <3>2. CASE "rodata" \notin elf.has
      <4>1. n["rodata"] = 0
        BY <3>2, ElfFacts DEF Section
      <4> QED
        BY <2>1, <2>2, <3>2, <4>1 DEF DataStart, StartOfData
    <3> QED
      BY <3>1, <3>2
  <2>4. DataStart \in Nat
    BY <2>1, <2>2 DEF DataStart, StartOfData
  <2>5. elf.addr["got"] + n["got"] <= MaxAddress + 1
    BY ElfFacts DEF Section
  <2>6. from < DataLength + n["bss"] + n["got"]
    BY <1>3 DEF RelativeReadable
  <2>7. DataStart + from \in 0..MaxAddress
    <3>1. DataStart + from >= 0
      BY <1>1, <1>3, <2>4
    <3>2. DataStart + from <= MaxAddress
      <4> HIDE DEF n
      <4> QED
        BY <2>1, <2>2, <2>3, <2>4, <2>5, <2>6, BoundAssumption DEF DataLength, n
    <3> QED
      BY <3>1, <3>2, <2>4, BoundAssumption
  <2>8. elf.word[DataStart + from] \in Nat
    BY <2>7, ElfFacts
  <2> QED
    BY <1>3, <2>8 DEF RelativeWord
<1> QED
  BY <1>2, <1>3

(* The bits of an entry: offset << 2 | code.                               *)
LEMMA Decoding ==
  ASSUME NEW offset \in Int, NEW code \in {0, 1, 2}
  PROVE  /\ Encoded(offset, code) \in Int
         /\ Encoded(offset, code) % 4 = code
         /\ Encoded(offset, code) \div 4 = offset
BY DEF Encoded

LEMMA StartIsNat ==
  ASSUME input \in DOMAIN Elfs
  PROVE  DataStart \in Nat
BY SizesAreNatural DEF DataStart, StartOfData

(* An encoded address leads where it should when the right section is      *)
(* chosen.                                                                 *)
LEMMA EncodedLeads ==
  ASSUME input \in DOMAIN Elfs, NEW w \in Nat
  PROVE  /\ w < DataStart => Encoded(w, 0) \in Int /\ LeadsTo(Encoded(w, 0), w)
         /\ w >= DataStart => /\ Encoded(w - DataStart, 1) \in Int
                              /\ LeadsTo(Encoded(w - DataStart, 1), w)
<1>1. DataStart \in Nat
  BY StartIsNat
<1>2. /\ Encoded(w, 0) \in Int
      /\ Encoded(w, 0) % 4 = 0 /\ Encoded(w, 0) \div 4 = w
  BY Decoding
<1>3. w - DataStart \in Int
  BY <1>1
<1>4. /\ Encoded(w - DataStart, 1) \in Int
      /\ Encoded(w - DataStart, 1) % 4 = 1
      /\ Encoded(w - DataStart, 1) \div 4 = w - DataStart
  BY <1>3, Decoding
<1> QED
  BY <1>2, <1>4 DEF LeadsTo, CodeSection, DataSection

LEMMA RelativeTargetLeads ==
  ASSUME input \in DOMAIN Elfs, NEW w \in Nat
  PROVE  RelativeTarget(w) \in Int /\ LeadsTo(RelativeTarget(w), w)
<1>1. DataStart \in Nat
  BY StartIsNat
<1>2. CASE w < DataStart
  BY <1>2, EncodedLeads DEF RelativeTarget, CodeSection
<1>3. CASE w >= DataStart
  <2>1. RelativeTarget(w) = Encoded(w - DataStart, 1)
    BY <1>1, <1>3 DEF RelativeTarget, DataSection
  <2> QED
    BY <1>3, <2>1, EncodedLeads
<1> QED
  BY <1>1, <1>2, <1>3

(* The same for the words ABS32 relocations are about.                     *)
LEMMA AbsoluteTargetLeads ==
  ASSUME input \in DOMAIN Elfs, NEW i \in DOMAIN elf.relocations,
         elf.relocations[i].type = "R_ARM_ABS32",
         AbsoluteReadable(elf.relocations[i])
  PROVE  LET r == elf.relocations[i]
         IN  /\ AbsoluteFrom(r) \in Int /\ AbsoluteTarget(r) \in Int
             /\ elf.size["init"] = 0 =>
                  /\ r.offset = DataStart + AbsoluteFrom(r)
                  /\ r.offset >= DataStart /\ r.offset < DataStart + DataLength
                  /\ LeadsTo(AbsoluteTarget(r), elf.word[r.offset])
<1> DEFINE r == elf.relocations[i]
<1>1. r \in Relocation
  BY ElfFacts
<1>2. r.offset \in Nat /\ r.symbol.value \in Nat
  BY <1>1 DEF Relocation, Symbol, NoSymbol
<1>3. DataStart \in Nat
  BY StartIsNat
<1>4. InitStart \in Nat
  BY SizesAreNatural DEF InitStart
<1>5. r.type = "R_ARM_ABS32" /\ AbsoluteReadable(r)
  OBVIOUS
<1>6. r.offset \in 0..MaxAddress =>
        (elf.word[r.offset] < DataStart <=> r.symbol.value < DataStart)
  BY AddendFact
<1> HIDE DEF r
<1>7. CASE AbsoluteInData(r)
  <2>1. /\ AbsoluteFrom(r) = r.offset - DataStart
        /\ AbsoluteFrom(r) \in Nat
        /\ AbsoluteFrom(r) < DataLength
    BY <1>2, <1>3, <1>5, <1>7 DEF AbsoluteFrom, AbsoluteReadable, AbsoluteInData
  <2>2. r.offset = DataStart + AbsoluteFrom(r)
    BY <1>2, <1>3, <2>1
  <2>3. /\ r.offset \in 0..MaxAddress
        /\ DataWord(AbsoluteFrom(r)) = elf.word[r.offset]
        /\ DataWord(AbsoluteFrom(r)) \in Nat
    BY <2>1, <2>2, DataIsWhereItStarts
  <2> DEFINE w == DataWord(AbsoluteFrom(r))
  <2>4. ASSUME r.symbol.value < DataStart
        PROVE  AbsoluteTarget(r) \in Int /\ LeadsTo(AbsoluteTarget(r), elf.word[r.offset])
    <3>1. AbsoluteTarget(r) = Encoded(w, 0)
      BY <1>7, <2>4 DEF AbsoluteTarget, CodeSection
    <3>2. w < DataStart
      BY <1>6, <2>3, <2>4
    <3> QED
      BY <2>3, <3>1, <3>2, EncodedLeads
  <2>5. ASSUME ~(r.symbol.value < DataStart)
        PROVE  AbsoluteTarget(r) \in Int /\ LeadsTo(AbsoluteTarget(r), elf.word[r.offset])
    <3>1. AbsoluteTarget(r) = Encoded(w - DataStart, 1)
      BY <1>7, <2>5 DEF AbsoluteTarget, DataSection
    <3>2. w >= DataStart
      BY <1>3, <1>6, <2>3, <2>5
    <3> QED
      BY <2>3, <3>1, <3>2, EncodedLeads
  <2>6. AbsoluteTarget(r) \in Int /\ LeadsTo(AbsoluteTarget(r), elf.word[r.offset])
    BY <2>4, <2>5
  <2>7. r.offset >= DataStart /\ r.offset < DataStart + DataLength
    BY <1>1, <1>2, <1>3, <2>1, <2>2, SizesAreNatural
  <2> QED
    BY <2>1, <2>2, <2>6, <2>7 DEF r
<1>8. CASE ~AbsoluteInData(r)
  <2>1. /\ AbsoluteFrom(r) = r.offset - InitStart
        /\ AbsoluteFrom(r) \in Nat
        /\ AbsoluteFrom(r) < elf.size["init"]
    BY <1>2, <1>4, <1>5, <1>8 DEF AbsoluteFrom, AbsoluteReadable
  <2>2. "init" \in elf.has
    <3> SUFFICES ASSUME "init" \notin elf.has PROVE FALSE
      OBVIOUS
    <3>1. elf.size["init"] = 0
      BY ElfFacts DEF Section
    <3> QED
      BY <2>1, <3>1
  <2>3. InitStart = elf.addr["init"]
    BY <2>2 DEF InitStart
  <2>4. elf.addr["init"] + elf.size["init"] <= MaxAddress + 1
    BY ElfFacts DEF Section
  <2>5. InitStart + AbsoluteFrom(r) \in 0..MaxAddress
    BY <1>4, <2>1, <2>3, <2>4, SizesAreNatural, BoundAssumption
  <2> DEFINE w == elf.word[InitStart + AbsoluteFrom(r)]
  <2>6. w \in Nat
    BY <2>5, ElfFacts
  <2>7. AbsoluteTarget(r) \in {Encoded(w, 0), Encoded(w - InitStart, 2)}
    BY <1>8 DEF AbsoluteTarget, CodeSection, InitSection
  <2>8. AbsoluteTarget(r) \in Int
    BY <1>4, <2>6, <2>7, Decoding
  <2>9. elf.size["init"] # 0
    BY <2>1, SizesAreNatural
  <2> QED
    BY <2>1, <2>8, <2>9 DEF r
<1> QED
  BY <1>7, <1>8

-----------------------------------------------------------------------------
(* Numbers and sequences.                                                  *)

(* A set of numbers has a least one.                                       *)
LEMMA LeastNumber ==
  ASSUME NEW T, T \subseteq Nat, T # {}
  PROVE  \E x \in T : \A y \in T : x <= y
<1>1. PICK less : /\ IsWellFoundedOn(less, Nat)
                  /\ \A x, y \in Nat : y < x => <<y, x>> \in less
  <2>1. \A x, y \in Nat : y < x => <<y, x>> \in OpToRel(<, Nat)
    BY DEF OpToRel
  <2> QED
    BY <2>1, NatLessThanWellFounded, Zenon
<1>2. PICK x \in T : \A y \in T : ~(<<y, x>> \in less)
  BY <1>1, WFMin
<1>3. \A y \in T : x <= y
  <2> SUFFICES ASSUME NEW y \in T PROVE x <= y
    OBVIOUS
  <2>1. x \in Nat /\ y \in Nat
    OBVIOUS
  <2>2. ~(y < x)
    BY <1>1, <1>2, <2>1, Zenon
  <2> QED
    BY <2>1, <2>2
<1> QED
  BY <1>3

(* A set of places of a sequence has a first and a last one.               *)
LEMMA FirstAndLast ==
  ASSUME NEW n \in Nat, NEW T, T \subseteq 1..n, T # {}
  PROVE  /\ \E x \in T : \A y \in T : x <= y
         /\ \E x \in T : \A y \in T : y <= x
<1>1. T \subseteq Nat
  OBVIOUS
<1>2. \E x \in T : \A y \in T : x <= y
  BY <1>1, LeastNumber
<1> DEFINE D == {n - y : y \in T}
<1>3. D \subseteq Nat /\ D # {}
  <2>1. \A y \in T : n - y \in Nat
    OBVIOUS
  <2> QED
    BY <2>1
<1>4. PICK d \in D : \A e \in D : d <= e
  <2> HIDE DEF D
  <2> QED
    BY <1>3, LeastNumber
<1>5. PICK x \in T : d = n - x
  OBVIOUS
<1>6. \A y \in T : y <= x
  <2> SUFFICES ASSUME NEW y \in T PROVE y <= x
    OBVIOUS
  <2>1. n - x <= n - y
    BY <1>4, <1>5
  <2>2. x \in 1..n /\ y \in 1..n
    OBVIOUS
  <2> QED
    BY <2>1, <2>2
<1> QED
  BY <1>2, <1>6

(* A property that holds at 0 and of the next number holds up to a bound.  *)
LEMMA UpTo ==
  ASSUME NEW n \in Nat, NEW T, 0 \in T, \A k \in 0..n : k \in T /\ k < n => k + 1 \in T
  PROVE  \A k \in 0..n : k \in T
<1> DEFINE Bad == {k \in 0..n : k \notin T}
<1> SUFFICES ASSUME Bad # {} PROVE FALSE
  OBVIOUS
<1>1. PICK k \in Bad : \A y \in Bad : k <= y
  <2>1. Bad \subseteq Nat
    OBVIOUS
  <2> HIDE DEF Bad
  <2> QED
    BY <2>1, LeastNumber
<1>2. k \in 0..n /\ k \notin T /\ k # 0
  OBVIOUS
<1>3. k - 1 \in 0..n /\ k - 1 < n
  BY <1>2
<1>4. k - 1 \in T
  BY <1>1, <1>2, <1>3
<1>5. (k - 1) + 1 = k
  BY <1>2
<1> QED
  BY <1>2, <1>3, <1>4, <1>5

(* The definition of Select has a solution: what is selected up to each    *)
(* place.                                                                  *)
Selection(s, places, w) ==
  /\ Select(s, places) = w[Len(s)]
  /\ w[0] = <<>>
  /\ \A k \in 1..Len(s) :
       w[k] = IF k \in places THEN Append(w[k - 1], s[k]) ELSE w[k - 1]
LEMMA SelectSelects ==
  ASSUME NEW S, NEW s \in Seq(S), NEW places
  PROVE  \E w : Selection(s, places, w)
<1> DEFINE N == Len(s)
           Is(w, n) ==
             w = [k \in 0..n |-> IF k = 0 THEN <<>>
                                 ELSE IF k \in places THEN Append(w[k - 1], s[k])
                                 ELSE w[k - 1]]
           T == {n \in 0..N : \E w : Is(w, n)}
<1>1. N \in Nat
  OBVIOUS
<1> HIDE DEF N
<1>2. 0 \in T
  <2> DEFINE w == [k \in 0..0 |-> <<>>]
  <2>1. Is(w, 0)
    OBVIOUS
  <2>2. \E v : Is(v, 0)
    <3> HIDE DEF w, Is
    <3> QED
      BY <2>1
  <2> QED
    BY <1>1, <2>2
<1>3. ASSUME NEW n \in 0..N, n \in T, n < N PROVE n + 1 \in T
  <2>1. PICK w : Is(w, n)
    BY <1>3
  <2> DEFINE last == IF n + 1 \in places THEN Append(w[n], s[n + 1]) ELSE w[n]
             v == [k \in 0..n + 1 |-> IF k = n + 1 THEN last ELSE w[k]]
             u == [k \in 0..n + 1 |-> IF k = 0 THEN <<>>
                                      ELSE IF k \in places THEN Append(v[k - 1], s[k])
                                      ELSE v[k - 1]]
  <2>2. \A k \in 0..n + 1 : v[k] = u[k]
    <3> SUFFICES ASSUME NEW k \in 0..n + 1 PROVE v[k] = u[k]
      OBVIOUS
    <3>1. CASE k = 0
      BY <2>1, <3>1, <1>1
    <3>2. CASE k \in 1..n
      <4>1. k - 1 \in 0..n /\ k - 1 # n + 1 /\ k # n + 1 /\ k # 0 /\ k \in 0..n
        BY <1>1, <3>2
      <4>2. v[k] = w[k] /\ v[k - 1] = w[k - 1]
        BY <1>1, <4>1
      <4>3. w[k] = IF k \in places THEN Append(w[k - 1], s[k]) ELSE w[k - 1]
        BY <2>1, <4>1
      <4> QED
        BY <4>1, <4>2, <4>3
    <3>3. CASE k = n + 1
      <4>1. k - 1 = n /\ n \in 0..n + 1 /\ n # n + 1 /\ k # 0
        BY <1>1, <3>3
      <4> QED
        BY <3>3, <4>1
    <3> QED
      BY <1>1, <3>1, <3>2, <3>3
  <2>3. v = u
    BY <2>2
  <2>4. Is(v, n + 1)
    BY <2>3
  <2>5. \E f : Is(f, n + 1)
    <3> HIDE DEF v, Is
    <3> QED
      BY <2>4
  <2>6. n + 1 \in 0..N
    BY <1>1, <1>3
  <2> HIDE DEF Is
  <2> QED
    BY <2>5, <2>6
<1>4. N \in T
  <2>1. \A n \in 0..N : n \in T /\ n < N => n + 1 \in T
    BY <1>3
  <2> HIDE DEF T
  <2>2. \A n \in 0..N : n \in T
    BY <1>1, <1>2, <2>1, UpTo
  <2> QED
    BY <1>1, <2>2
<1>5. \E w : Is(w, N)
  BY <1>4
<1> DEFINE w == CHOOSE f : Is(f, N)
<1>6. Is(w, N)
  BY <1>5
<1>7. Select(s, places) = w[N]
  BY DEF Select, N
<1> HIDE DEF w
<1>8. \A k \in 0..N : w[k] = IF k = 0 THEN <<>>
                            ELSE IF k \in places THEN Append(w[k - 1], s[k]) ELSE w[k - 1]
  BY <1>6
<1>9. 0 \in 0..N /\ \A k \in 1..N : k \in 0..N /\ k # 0
  BY <1>1
<1>10. w[0] = <<>>
  BY <1>8, <1>9
<1>11. \A k \in 1..N :
         w[k] = IF k \in places THEN Append(w[k - 1], s[k]) ELSE w[k - 1]
  BY <1>8, <1>9
<1> QED
  BY <1>7, <1>10, <1>11 DEF Selection, N

(* Select returns the elements at the places, and no others.               *)
LEMMA SelectFacts ==
  ASSUME NEW S, NEW s \in Seq(S), NEW places
  PROVE  LET t == Select(s, places)
         IN  /\ t \in Seq(S)
             /\ \A k \in DOMAIN t : \E i \in DOMAIN s : i \in places /\ t[k] = s[i]
             /\ \A i \in DOMAIN s : i \in places => \E k \in DOMAIN t : t[k] = s[i]
<1>1. PICK w : Selection(s, places, w)
  BY SelectSelects
<1> DEFINE N == Len(s)
           Good(n, t) ==
             /\ t \in Seq(S)
             /\ \A k \in DOMAIN t : \E i \in 1..n : i \in places /\ t[k] = s[i]
             /\ \A i \in 1..n : i \in places => \E k \in DOMAIN t : t[k] = s[i]
           T == {n \in 0..N : Good(n, w[n])}
<1>2. N \in Nat /\ DOMAIN s = 1..N
  OBVIOUS
<1> HIDE DEF N
<1>3. 0 \in T
  <2>1. w[0] = <<>> /\ 0 \in 0..N
    BY <1>1, <1>2 DEF Selection
  <2>2. Good(0, <<>>)
    OBVIOUS
  <2> QED
    BY <2>1, <2>2
<1>4. ASSUME NEW n \in 0..N, n \in T, n < N PROVE n + 1 \in T
  <2> DEFINE v == w[n]
  <2>1. Good(n, v)
    BY <1>4
  <2>2. n + 1 \in 1..N /\ (n + 1) - 1 = n /\ n \in Nat
    BY <1>2, <1>4
  <2>3. w[n + 1] = IF n + 1 \in places THEN Append(v, s[n + 1]) ELSE v
    BY <1>1, <2>2 DEF Selection, N
  <2>4. s[n + 1] \in S
    BY <1>2, <2>2
  <2> HIDE DEF v
  <2>5. CASE n + 1 \notin places
    <3>1. w[n + 1] = v
      BY <2>3, <2>5
    <3>2. \A i \in 1..n + 1 : i \in places => i \in 1..n
      BY <2>2, <2>5
    <3>3. \A i \in 1..n : i \in 1..n + 1
      BY <2>2
    <3>4. Good(n + 1, v)
      BY <2>1, <3>2, <3>3
    <3>5. n + 1 \in 0..N
      BY <1>2, <2>2
    <3> HIDE DEF Good
    <3> QED
      BY <3>1, <3>4, <3>5
  <2>6. CASE n + 1 \in places
    <3> DEFINE t == Append(v, s[n + 1])
    <3>1. /\ t \in Seq(S) /\ DOMAIN t = 1..Len(v) + 1 /\ Len(v) \in Nat
          /\ DOMAIN v = 1..Len(v)
          /\ t[Len(v) + 1] = s[n + 1]
          /\ \A k \in 1..Len(v) : t[k] = v[k]
      BY <2>1, <2>4
    <3> HIDE DEF t
    <3>2. ASSUME NEW k \in DOMAIN t PROVE \E i \in 1..n + 1 : i \in places /\ t[k] = s[i]
      <4>1. CASE k = Len(v) + 1
        BY <2>2, <2>6, <3>1, <4>1
      <4>2. CASE k \in 1..Len(v)
        <5>1. PICK i \in 1..n : i \in places /\ v[k] = s[i]
          BY <2>1, <3>1, <4>2
        <5>2. i \in 1..n + 1 /\ t[k] = v[k]
          BY <2>2, <3>1, <4>2
        <5> QED
          BY <5>1, <5>2
      <4> QED
        BY <3>1, <4>1, <4>2
    <3>3. ASSUME NEW i \in 1..n + 1, i \in places PROVE \E k \in DOMAIN t : t[k] = s[i]
      <4>1. CASE i = n + 1
        BY <3>1, <4>1
      <4>2. CASE i \in 1..n
        <5>1. PICK k \in DOMAIN v : v[k] = s[i]
          BY <2>1, <3>3, <4>2
        <5>2. k \in DOMAIN t /\ t[k] = v[k]
          BY <3>1
        <5> QED
          BY <5>1, <5>2
      <4> QED
        BY <2>2, <4>1, <4>2
    <3>4. Good(n + 1, t)
      BY <3>1, <3>2, <3>3
    <3>5. w[n + 1] = t
      BY <2>3, <2>6 DEF t
    <3>6. n + 1 \in 0..N
      BY <1>2, <2>2
    <3> HIDE DEF Good
    <3> QED
      BY <3>4, <3>5, <3>6
  <2> QED
    BY <2>5, <2>6
<1>5. N \in T
  <2>1. \A n \in 0..N : n \in T /\ n < N => n + 1 \in T
    BY <1>4
  <2> HIDE DEF T
  <2>2. \A n \in 0..N : n \in T
    BY <1>2, <1>3, <2>1, UpTo
  <2> QED
    BY <1>2, <2>2
<1>6. Good(N, w[N])
  BY <1>5
<1>7. Select(s, places) = w[N]
  BY <1>1 DEF Selection, N
<1> QED
  BY <1>2, <1>6, <1>7, ZenonT(40)

(* Every name has a place where it occurs for the first time.              *)
LEMMA FirstOnesNameAll ==
  ASSUME NEW S, NEW table \in Seq(S), NEW i \in DOMAIN table
  PROVE  \E j \in DOMAIN table : j \in FirstOnes(table) /\ table[j].name = table[i].name
<1> DEFINE T == {j \in DOMAIN table : table[j].name = table[i].name}
<1>1. DOMAIN table = 1..Len(table) /\ Len(table) \in Nat
  OBVIOUS
<1>2. PICK j \in T : \A y \in T : j <= y
  <2>1. T \subseteq 1..Len(table) /\ T # {}
    BY <1>1
  <2> HIDE DEF T
  <2> QED
    BY <1>1, <2>1, FirstAndLast
<1>3. \A x \in 1..j - 1 : table[x].name # table[j].name
  <2> SUFFICES ASSUME NEW x \in 1..j - 1, table[x].name = table[j].name PROVE FALSE
    OBVIOUS
  <2>1. x \in T /\ x < j
    BY <1>1
  <2> QED
    BY <1>1, <1>2, <2>1
<1>4. j \in FirstOnes(table)
  BY <1>3 DEF FirstOnes
<1> QED
  BY <1>2, <1>4
-----------------------------------------------------------------------------
(* The symbols.                                                            *)
LEMMA ParsedSymbolsAreSymbols ==
  ASSUME input \in DOMAIN Elfs
  PROVE  ParsedSymbols(elf) \in Seq(Symbol)
<1> DEFINE s == elf.dynsym
           firsts == Select(s, FirstOnes(s))
           Last(n) == CHOOSE i \in Named(s, n) : \A j \in Named(s, n) : j <= i
<1>1. s \in Seq(Symbol)
  BY ElfFacts
<1> HIDE DEF s
<1>2. /\ firsts \in Seq(Symbol)
      /\ \A k \in DOMAIN firsts : \E i \in DOMAIN s : firsts[k] = s[i]
  BY <1>1, SelectFacts
<1> HIDE DEF firsts
<1>3. ASSUME NEW k \in DOMAIN firsts PROVE s[Last(firsts[k].name)] \in Symbol
  <2> DEFINE M == Named(s, firsts[k].name)
  <2>1. DOMAIN s = 1..Len(s) /\ Len(s) \in Nat
    BY <1>1
  <2>2. M \subseteq 1..Len(s) /\ M # {}
    BY <1>2, <1>3, <2>1 DEF Named
  <2>3. \E i \in M : \A j \in M : j <= i
    <3> HIDE DEF M
    <3> QED
      BY <2>1, <2>2, FirstAndLast
  <2>4. Last(firsts[k].name) \in M
    BY <2>3
  <2> QED
    BY <1>1, <2>1, <2>2, <2>4
<1>4. ParsedSymbols(elf) = [k \in DOMAIN firsts |-> s[Last(firsts[k].name)]]
  BY DEF ParsedSymbols, firsts, s
<1>5. DOMAIN firsts = 1..Len(firsts) /\ Len(firsts) \in Nat
  BY <1>2
<1> HIDE DEF Last
<1>6. [k \in DOMAIN firsts |-> s[Last(firsts[k].name)]] \in [1..Len(firsts) -> Symbol]
  BY <1>3, <1>5
<1> QED
  BY <1>4, <1>5, <1>6

LEMMA ProcessSymbolsTypes ==
  ASSUME ConvertInv, ProcessSymbols
  PROVE  symbols' \in Seq(KnownSymbol)
<1>1. CASE UNCHANGED symbols
  BY <1>1 DEF ConvertInv, SymbolsOK
<1>2. CASE ~UNCHANGED symbols
  <2> DEFINE all == ParsedSymbols(elf)
             kept == Select(all, {i \in DOMAIN all : Kept(all[i])})
  <2>1. symbols' = [i \in DOMAIN kept |->
                     [name |-> kept[i].name, section |-> kept[i].section,
                      value |-> kept[i].value, localization |-> Localization(kept[i])]]
    BY <1>2 DEF ProcessSymbols
  <2>2. all \in Seq(Symbol)
    BY ParsedSymbolsAreSymbols DEF ConvertInv, ArgumentsOK
  <2> HIDE DEF all
  <2>3. kept \in Seq(Symbol)
    BY <2>2, SelectFacts
  <2> HIDE DEF kept
  <2>4. DOMAIN kept = 1..Len(kept) /\ Len(kept) \in Nat /\ \A i \in DOMAIN kept : kept[i] \in Symbol
    BY <2>3
  <2>5. ASSUME NEW s \in Symbol
        PROVE  [name |-> s.name, section |-> s.section, value |-> s.value,
                localization |-> Localization(s)] \in KnownSymbol
    <3>1. Localization(s) \in {"imported", "exported", "internal"}
      BY DEF Localization
    <3> QED
      BY <3>1 DEF KnownSymbol, Symbol
  <2>6. symbols' \in [1..Len(kept) -> KnownSymbol]
    BY <2>1, <2>4, <2>5
  <2> QED
    BY <2>4, <2>6
<1> QED
  BY <1>1, <1>2

LEMMA BuildSymbolTablesTypes ==
  ASSUME ConvertInv, BuildSymbolTables
  PROVE  exported' \in Seq(KnownSymbol) /\ imported' \in Seq(KnownSymbol)
<1>1. symbols \in Seq(KnownSymbol)
  BY DEF ConvertInv, SymbolsOK
<1>2. /\ exported' = Select(symbols, {i \in DOMAIN symbols : symbols[i].localization = "exported"})
      /\ imported' = Select(symbols, {i \in DOMAIN symbols : symbols[i].localization = "imported"})
  BY DEF BuildSymbolTables
<1> QED
  BY <1>1, <1>2, SelectFacts
-----------------------------------------------------------------------------
(* One turn of a loop: what it adds to the list and has done for the       *)
(* relocation it is at.                                                    *)
Grows(e) == relocs'.list = relocs.list \/ relocs'.list = Append(relocs.list, e)

LEMMA EntryIsEntry ==
  ASSUME NEW r \in Relocation, NEW index \in Int, NEW offset \in Int,
         NEW isExported \in BOOLEAN, NEW type \in {"local", "symbol_table", "data"}
  PROVE  Entry(type, r, index, offset, isExported) \in ListEntry
BY DEF ListEntry

(* The last place of a list after an append.                               *)
LEMMA Appended ==
  ASSUME NEW list \in Seq(ListEntry), NEW e \in ListEntry
  PROVE  /\ Append(list, e) \in Seq(ListEntry)
         /\ \A k \in DOMAIN list : k \in DOMAIN Append(list, e) /\ Append(list, e)[k] = list[k]
         /\ \E k \in DOMAIN Append(list, e) : Append(list, e)[k] = e
         /\ \A k \in DOMAIN Append(list, e) : k \in DOMAIN list \/ Append(list, e)[k] = e
<1> DEFINE t == Append(list, e)
<1>1. /\ t \in Seq(ListEntry) /\ DOMAIN t = 1..Len(list) + 1 /\ Len(list) \in Nat
      /\ DOMAIN list = 1..Len(list)
      /\ t[Len(list) + 1] = e /\ \A k \in 1..Len(list) : t[k] = list[k]
  OBVIOUS
<1> HIDE DEF t
<1>2. Len(list) + 1 \in DOMAIN t
  BY <1>1
<1>3. \A k \in DOMAIN t : k \in DOMAIN list \/ k = Len(list) + 1
  BY <1>1
<1>4. \A k \in DOMAIN list : k \in DOMAIN t
  BY <1>1
<1> QED
  BY <1>1, <1>2, <1>3, <1>4 DEF t

LEMMA ProcessRelocationAdds ==
  ASSUME ConvertInv, ProcessRelocation, NEW r, r = Current
  PROVE  /\ CollectedOK'
         /\ \E e \in ListEntry : Grows(e) /\ SlotEntry(e) /\ e.type # "data"
         /\ phase' # "failed" => next' = next + 1 /\ SlotDone(r)'
<1>1. /\ input \in DOMAIN Elfs /\ UNCHANGED arguments
      /\ next \in Nat \ {0} /\ next <= Len(elf.relocations) /\ phase = "relocations"
  BY DEF ConvertInv, ArgumentsOK, ProcessRelocation
<1>2. /\ r \in Relocation /\ r.offset \in Nat
      /\ next \in DOMAIN elf.relocations /\ r = elf.relocations[next]
  BY <1>1, CurrentIsRelocation DEF Relocation, Current
<1>3. /\ relocs.list \in Seq(ListEntry) /\ relocs.omitted \in Seq(ListEntry)
      /\ relocs.index \in Nat
      /\ relocs = [list |-> relocs.list, omitted |-> relocs.omitted, index |-> relocs.index]
  BY DEF ConvertInv, CollectedOK
<1>4. elf' = elf /\ r.offset \in Int /\ relocs.index \in Int /\ FALSE \in BOOLEAN
  BY <1>1, <1>2, <1>3 DEF elf, arguments
<1> DEFINE local == Entry("local", r, relocs.index, r.offset, FALSE)
           slot(x) == Entry("symbol_table", r, GotIndex(r.offset), r.offset, x)
<1>5. local \in ListEntry /\ local.type = "local" /\ local.name = r.symbol.name
  <2>1. local \in ListEntry
    BY <1>2, <1>4, EntryIsEntry
  <2> QED
    BY <2>1 DEF Entry
<1>6. ASSUME NEW x \in BOOLEAN
      PROVE  /\ slot(x) \in ListEntry /\ slot(x).type = "symbol_table"
             /\ slot(x).name = r.symbol.name /\ slot(x).index = GotIndex(r.offset)
  <2>1. GotIndex(r.offset) \in Int
    <3>1. elf.addr["got"] \in Int
      BY <1>1, ElfFacts, SMTT(20) DEF Section
    <3> QED
      BY <1>2, <3>1 DEF GotIndex
  <2>2. slot(x) \in ListEntry
    BY <1>2, <1>4, <2>1, EntryIsEntry
  <2> QED
    BY <2>2 DEF Entry
<1> HIDE DEF local, slot
<1>7. SlotEntry(local)
  BY <1>5 DEF SlotEntry
<1>8. ASSUME UNCHANGED relocs PROVE CollectedOK' /\ Grows(local)
  BY <1>8 DEF ConvertInv, CollectedOK, Grows
<1>9. CASE r.type \in SkippedForGot /\ next' = next + 1 /\ UNCHANGED relocs
  <2>1. r.type \notin {"R_ARM_GLOB_DAT", "R_ARM_JUMP_SLOT"}
    BY <1>9 DEF SkippedForGot
  <2>2. SlotDone(r)'
    BY <2>1 DEF SlotDone
  <2> QED
    BY <1>5, <1>7, <1>8, <1>9, <2>2
<1>10. CASE phase' = "failed" /\ UNCHANGED relocs
  BY <1>5, <1>7, <1>8, <1>10
<1>11. CASE r.type = "R_ARM_GOT_BREL" /\ AddLocalRelocation(r) /\ next' = next + 1
  <2> DEFINE l == Append(relocs.list, local)
  <2>1. relocs' = [list |-> l, omitted |-> relocs.omitted, index |-> relocs.index + 1]
    BY <1>3, <1>11 DEF AddLocalRelocation, local
  <2>2. l \in Seq(ListEntry)
    BY <1>3, <1>5
  <2> HIDE DEF l
  <2>3. CollectedOK'
    BY <1>3, <2>1, <2>2 DEF CollectedOK
  <2>4. Grows(local)
    BY <2>1 DEF Grows, l
  <2>5. SlotDone(r)'
    BY <1>11 DEF SlotDone
  <2> QED
    BY <1>5, <1>7, <1>11, <2>3, <2>4, <2>5
<1>12. ASSUME r.type \in ForGot, next' = next + 1, NEW x \in BOOLEAN,
              AddSymbolTableRelocation(r, x)
       PROVE  /\ CollectedOK'
              /\ \E e \in ListEntry : Grows(e) /\ SlotEntry(e) /\ e.type # "data"
              /\ phase' # "failed" => next' = next + 1 /\ SlotDone(r)'
  <2> DEFINE e == slot(x)
  <2>1. e \in ListEntry /\ e.type # "data" /\ e.name = r.symbol.name
    BY <1>6, <1>12
  <2>2. SlotEntry(e)
    BY <1>2, <1>6, <1>12 DEF SlotEntry
  <2> HIDE DEF e
  <2>3. CASE Named(relocs.list, r.symbol.name) # {}
    <3> DEFINE o == Append(relocs.omitted, e)
    <3>1. relocs' = [list |-> relocs.list, omitted |-> o, index |-> relocs.index]
      BY <1>3, <1>12, <2>3 DEF AddSymbolTableRelocation, e, slot
    <3>2. o \in Seq(ListEntry)
      BY <1>3, <2>1
    <3> HIDE DEF o
    <3>3. CollectedOK' /\ Grows(e)
      BY <1>3, <3>1, <3>2 DEF CollectedOK, Grows
    <3>4. PICK k \in DOMAIN relocs.list : relocs.list[k].name = r.symbol.name
      BY <2>3 DEF Named
    <3>5. relocs.list[k].type # "data"
      BY <1>1 DEF ConvertInv, EntriesOK
    <3>6. SlotDone(r)'
      BY <3>1, <3>4, <3>5 DEF SlotDone
    <3> QED
      BY <1>12, <2>1, <2>2, <3>3, <3>6
  <2>4. CASE Named(relocs.list, r.symbol.name) = {}
    <3> DEFINE l == Append(relocs.list, e)
    <3>1. relocs' = [list |-> l, omitted |-> relocs.omitted, index |-> relocs.index]
      BY <1>3, <1>12, <2>4 DEF AddSymbolTableRelocation, e, slot
    <3>2. l \in Seq(ListEntry) /\ \E k \in DOMAIN l : l[k] = e
      BY <1>3, <2>1, Appended
    <3>3. Grows(e)
      BY <3>1 DEF Grows
    <3> HIDE DEF l
    <3>4. CollectedOK'
      BY <1>3, <3>1, <3>2 DEF CollectedOK
    <3>5. SlotDone(r)'
      BY <2>1, <3>1, <3>2 DEF SlotDone
    <3> QED
      BY <1>12, <2>1, <2>2, <3>3, <3>4, <3>5
  <2> QED
    BY <2>3, <2>4
<1>13. \/ r.type \in SkippedForGot /\ next' = next + 1 /\ UNCHANGED relocs
       \/ phase' = "failed" /\ UNCHANGED relocs
       \/ r.type = "R_ARM_GOT_BREL" /\ AddLocalRelocation(r) /\ next' = next + 1
       \/ /\ r.type \in ForGot /\ next' = next + 1
          /\ \E x \in BOOLEAN : AddSymbolTableRelocation(r, x)
  <2>1. \A n : (LocalizationOf(n) = "exported") \in BOOLEAN
    OBVIOUS
  <2> QED
    BY <2>1 DEF ProcessRelocation
<1> QED
  BY <1>9, <1>10, <1>11, <1>12, <1>13

LEMMA ProcessDataRelocationAdds ==
  ASSUME ConvertInv, ProcessDataRelocation, NEW r, r = Current
  PROVE  /\ CollectedOK'
         /\ \E e \in ListEntry : Grows(e) /\ EntryLeads(e) /\ e.type = "data"
         /\ phase' # "failed" => next' = next + 1 /\ DataDone(r)'
<1> DEFINE from == r.offset - DataStart
<1>1. /\ input \in DOMAIN Elfs /\ UNCHANGED arguments /\ phase = "data"
      /\ next \in Nat \ {0} /\ next <= Len(elf.relocations) /\ UNCHANGED symbols
  BY DEF ConvertInv, ArgumentsOK, ProcessDataRelocation
<1>2. SectionsAccepted /\ "got" \in elf.has
  BY <1>1 DEF ConvertInv, PhaseOK, AfterSlots
<1>3. /\ next \in DOMAIN elf.relocations /\ r = elf.relocations[next]
      /\ r \in Relocation /\ r.offset \in Nat
  BY <1>1, CurrentIsRelocation DEF Relocation, Current
<1>4. DataStart \in Nat /\ from \in Int /\ DataStart + from = r.offset
  BY <1>1, <1>3, StartIsNat
<1>5. /\ relocs.list \in Seq(ListEntry) /\ relocs.omitted \in Seq(ListEntry)
      /\ relocs.index \in Nat
      /\ relocs = [list |-> relocs.list, omitted |-> relocs.omitted, index |-> relocs.index]
  BY DEF ConvertInv, CollectedOK
<1>6. /\ elf' = elf /\ DataStart' = DataStart /\ DataLength' = DataLength
      /\ Absolute(r)' = Absolute(r) /\ Relative(r)' = Relative(r)
      /\ RelativeReadable(from)' = RelativeReadable(from)
  BY <1>1 DEF elf, arguments, DataStart, DataLength, Absolute, Relative, RelativeReadable
<1>7. \E e \in ListEntry : EntryLeads(e) /\ e.type = "data"
  <2> DEFINE e == Entry("data", r, -1, 0, FALSE)
  <2>1. -1 \in Int /\ 0 \in Int /\ FALSE \in BOOLEAN
    OBVIOUS
  <2>2. e \in ListEntry
    BY <1>3, <2>1, EntryIsEntry
  <2>3. e.type = "data" /\ e.index = -1
    BY DEF Entry
  <2>4. EntryLeads(e)
    <3> HIDE DEF e
    <3> QED
      BY <2>3 DEF EntryLeads
  <2> QED
    BY <2>2, <2>3, <2>4
<1>8. ASSUME UNCHANGED relocs PROVE CollectedOK' /\ \A e : Grows(e)
  BY <1>8 DEF ConvertInv, CollectedOK, Grows
<1>9. CASE ~Absolute(r) /\ ~Relative(r) /\ next' = next + 1 /\ UNCHANGED relocs
  <2>1. DataDone(r)'
    BY <1>6, <1>9 DEF DataDone
  <2> QED
    BY <1>7, <1>8, <1>9, <2>1
<1>10. CASE phase' = "failed" /\ UNCHANGED relocs
  BY <1>7, <1>8, <1>10
<1>11. ASSUME NEW e \in ListEntry, e.type = "data", EntryLeads(e),
              elf.size["init"] = 0 => e.index = from,
              elf.size["init"] = 0 /\ Absolute(r) =>
                r.offset >= DataStart /\ r.offset < DataStart + DataLength,
              Relative(r) => RelativeReadable(from),
              next' = next + 1, relocs' = [relocs EXCEPT !.list = Append(@, e)]
       PROVE  CollectedOK' /\ Grows(e) /\ DataDone(r)'
  <2> DEFINE l == Append(relocs.list, e)
  <2>1. relocs' = [list |-> l, omitted |-> relocs.omitted, index |-> relocs.index]
    BY <1>5, <1>11
  <2>2. l \in Seq(ListEntry) /\ \E k \in DOMAIN l : l[k] = e
    BY <1>5, <1>11, Appended
  <2>3. Grows(e)
    BY <2>1 DEF Grows
  <2> HIDE DEF l
  <2>4. CollectedOK'
    BY <1>5, <2>1, <2>2 DEF CollectedOK
  <2>5. PICK k \in DOMAIN l : l[k] = e
    BY <2>2
  <2>6. elf.size["init"] = 0 =>
          k \in DOMAIN relocs'.list /\ relocs'.list[k].type = "data"
          /\ relocs'.list[k].index = r.offset - DataStart'
    BY <1>6, <1>11, <2>1, <2>5
  <2>7. /\ elf.size["init"] = 0 /\ Absolute(r)' =>
             r.offset >= DataStart' /\ r.offset < DataStart' + DataLength'
        /\ Relative(r)' => RelativeReadable(r.offset - DataStart)'
    BY <1>6, <1>11
  <2>8. DataDone(r)'
    BY <1>6, <2>6, <2>7 DEF DataDone
  <2> QED
    BY <2>3, <2>4, <2>8
<1>12. CASE /\ Absolute(r) /\ AbsoluteReadable(r) /\ next' = next + 1
            /\ AddDataRelocation(r, AbsoluteFrom(r), AbsoluteTarget(r))
  <2> DEFINE e == Entry("data", r, AbsoluteFrom(r), AbsoluteTarget(r), FALSE)
  <2>1. /\ AbsoluteFrom(r) \in Int /\ AbsoluteTarget(r) \in Int
        /\ elf.size["init"] = 0 =>
             /\ r.offset = DataStart + AbsoluteFrom(r)
             /\ r.offset >= DataStart /\ r.offset < DataStart + DataLength
             /\ LeadsTo(AbsoluteTarget(r), elf.word[r.offset])
    BY <1>1, <1>3, <1>12, AbsoluteTargetLeads DEF Absolute
  <2>2. e \in ListEntry
    BY <1>3, <2>1, EntryIsEntry
  <2>3. e.index = AbsoluteFrom(r) /\ e.offset = AbsoluteTarget(r) /\ e.type = "data"
    BY DEF Entry
  <2>4. relocs' = [relocs EXCEPT !.list = Append(@, e)]
    BY <1>12 DEF AddDataRelocation
  <2> HIDE DEF e
  <2>5. EntryLeads(e)
    BY <1>3, <1>12, <2>1, <2>3 DEF EntryLeads
  <2>6. elf.size["init"] = 0 => e.index = from
    BY <1>3, <1>4, <2>1, <2>3
  <2>7. ~Relative(r)
    BY <1>12 DEF Absolute, Relative
  <2>8. CollectedOK' /\ Grows(e) /\ DataDone(r)'
    BY <1>11, <1>12, <2>1, <2>2, <2>3, <2>4, <2>5, <2>6, <2>7
  <2> QED
    BY <1>12, <2>2, <2>3, <2>5, <2>8
<1>13. CASE /\ Relative(r) /\ RelativeReadable(from) /\ next' = next + 1
            /\ AddDataRelocation(r, from, RelativeTarget(RelativeWord(from)))
  <2> DEFINE w == RelativeWord(from)
             e == Entry("data", r, from, RelativeTarget(w), FALSE)
  <2>1. w \in Nat /\ (from >= 0 => w = elf.word[DataStart + from])
    BY <1>1, <1>2, <1>4, <1>13, RelativeWordFacts
  <2>2. RelativeTarget(w) \in Int /\ LeadsTo(RelativeTarget(w), w)
    BY <1>1, <2>1, RelativeTargetLeads
  <2>3. e \in ListEntry
    BY <1>3, <1>4, <2>2, EntryIsEntry
  <2>4. e.index = from /\ e.offset = RelativeTarget(w) /\ e.type = "data"
    BY DEF Entry
  <2>5. relocs' = [relocs EXCEPT !.list = Append(@, e)]
    BY <1>13 DEF AddDataRelocation
  <2> HIDE DEF e
  <2>6. EntryLeads(e)
    BY <1>3, <1>4, <1>13, <2>1, <2>2, <2>4 DEF EntryLeads
  <2>7. ~Absolute(r)
    BY <1>13 DEF Absolute, Relative
  <2>8. CollectedOK' /\ Grows(e) /\ DataDone(r)'
    BY <1>11, <1>13, <2>3, <2>4, <2>5, <2>6, <2>7
  <2> QED
    BY <1>13, <2>3, <2>4, <2>6, <2>8
<1>14. \/ ~Absolute(r) /\ ~Relative(r) /\ next' = next + 1 /\ UNCHANGED relocs
       \/ phase' = "failed" /\ UNCHANGED relocs
       \/ /\ Absolute(r) /\ AbsoluteReadable(r) /\ next' = next + 1
          /\ AddDataRelocation(r, AbsoluteFrom(r), AbsoluteTarget(r))
       \/ /\ Relative(r) /\ RelativeReadable(from) /\ next' = next + 1
          /\ AddDataRelocation(r, from, RelativeTarget(RelativeWord(from)))
  BY DEF ProcessDataRelocation
<1> QED
  BY <1>9, <1>10, <1>12, <1>13, <1>14
-----------------------------------------------------------------------------
(* What is known of a list stays true when it grows.                       *)
LEMMA GrowthKeeps ==
  ASSUME ConvertInv, UNCHANGED arguments, UNCHANGED symbols,
         NEW e, Grows(e), relocs'.list # relocs.list => e \in ListEntry
  PROVE  /\ \A k \in DOMAIN relocs'.list :
              \/ k \in DOMAIN relocs.list /\ relocs'.list[k] = relocs.list[k]
              \/ relocs'.list[k] = e
         /\ \A x : EntryLeads(x)' <=> EntryLeads(x)
         /\ \A x : SlotEntry(x)' <=> SlotEntry(x)
         /\ \A r : SlotDone(r) => SlotDone(r)'
         /\ \A r : DataDone(r) => DataDone(r)'
<1>1. relocs.list \in Seq(ListEntry)
  BY DEF ConvertInv, CollectedOK
<1>2. /\ \A k \in DOMAIN relocs.list : k \in DOMAIN relocs'.list /\ relocs'.list[k] = relocs.list[k]
      /\ \A k \in DOMAIN relocs'.list :
           \/ k \in DOMAIN relocs.list /\ relocs'.list[k] = relocs.list[k]
           \/ relocs'.list[k] = e
  <2>1. CASE relocs'.list = relocs.list
    BY <2>1
  <2>2. CASE relocs'.list # relocs.list /\ relocs'.list = Append(relocs.list, e)
    BY <1>1, <2>2, Appended
  <2> QED
    BY <2>1, <2>2 DEF Grows
<1>3. elf' = elf
  BY DEF elf, arguments
<1>4. /\ DataStart' = DataStart /\ DataLength' = DataLength
      /\ \A r : Absolute(r)' = Absolute(r) /\ Relative(r)' = Relative(r)
      /\ \A from : RelativeReadable(from)' = RelativeReadable(from)
      /\ \A offset : GotIndex(offset)' = GotIndex(offset)
  BY <1>3 DEF DataStart, DataLength, Absolute, Relative, RelativeReadable, GotIndex
<1>5. \A x, w : LeadsTo(x, w)' <=> LeadsTo(x, w)
  BY <1>4 DEF LeadsTo
<1>6. \A x : EntryLeads(x)' <=> EntryLeads(x)
  BY <1>3, <1>4, <1>5 DEF EntryLeads
<1>7. \A x : SlotEntry(x)' <=> SlotEntry(x)
  BY <1>3, <1>4 DEF SlotEntry
<1>8. \A r : SlotDone(r) => SlotDone(r)'
  BY <1>2 DEF SlotDone
<1>9. ASSUME NEW r, DataDone(r) PROVE DataDone(r)'
  <2>1. CASE elf.size["init"] # 0
    BY <1>3, <2>1 DEF DataDone
  <2>2. CASE elf.size["init"] = 0
    <3>1. /\ Absolute(r) => r.offset >= DataStart /\ r.offset < DataStart + DataLength
          /\ Relative(r) => RelativeReadable(r.offset - DataStart)
      BY <1>9, <2>2 DEF DataDone
    <3>2. ASSUME Absolute(r) \/ Relative(r)
          PROVE  \E k \in DOMAIN relocs'.list :
                   /\ relocs'.list[k].type = "data"
                   /\ relocs'.list[k].index = r.offset - DataStart
      BY <1>2, <1>9, <2>2, <3>2 DEF DataDone
    <3> QED
      BY <1>3, <1>4, <3>1, <3>2 DEF DataDone
  <2> QED
    BY <2>1, <2>2
<1> QED
  BY <1>2, <1>6, <1>7, <1>8, <1>9

(* The arguments never change and no phase goes back before the check of   *)
(* the sections.                                                           *)
LEMMA PhasesKeep ==
  ASSUME ConvertInv, Convert
  PROVE  ArgumentsOK' /\ PhaseOK' /\ UNCHANGED arguments
<1>1. UNCHANGED arguments
  BY DEF Convert, FetchSections, ProcessSymbols, ProcessRelocation, EndRelocations,
         ProcessDataRelocation, EndDataRelocations, BuildSymbolTables,
         ResolveDependantLibraries, BuildImage
<1>2. next' \in {next, next + 1, 1}
  BY DEF Convert, FetchSections, ProcessSymbols, ProcessRelocation, EndRelocations,
         ProcessDataRelocation, EndDataRelocations, BuildSymbolTables,
         ResolveDependantLibraries, BuildImage
<1>3. ArgumentsOK'
  BY <1>1, <1>2 DEF arguments, ConvertInv, ArgumentsOK
<1>4. elf' = elf
  BY <1>1 DEF arguments, elf
<1>5. (SectionsAccepted <=> SectionsAccepted')
  BY <1>4 DEF SectionsAccepted, Address
<1>6. PhaseOK /\ AfterSlots = {"data", "tables", "libraries", "build", "written"}
  BY DEF ConvertInv, AfterSlots, AfterDatas
<1>7. PhaseOK'
  <2>1. CASE FetchSections
    BY <1>4, <1>5, <1>6, <2>1 DEF FetchSections, PhaseOK
  <2>2. CASE ProcessSymbols
    BY <1>4, <1>5, <1>6, <2>2 DEF ProcessSymbols, PhaseOK
  <2>3. CASE ProcessRelocation
    BY <1>4, <1>5, <1>6, <2>3 DEF ProcessRelocation, PhaseOK
  <2>4. CASE EndRelocations
    BY <1>4, <1>5, <1>6, <2>4 DEF EndRelocations, PhaseOK
  <2>5. CASE ProcessDataRelocation
    BY <1>4, <1>5, <1>6, <2>5 DEF ProcessDataRelocation, PhaseOK
  <2>6. CASE EndDataRelocations
    BY <1>4, <1>5, <1>6, <2>6 DEF EndDataRelocations, PhaseOK
  <2>7. CASE BuildSymbolTables
    BY <1>4, <1>5, <1>6, <2>7 DEF BuildSymbolTables, PhaseOK
  <2>8. CASE ResolveDependantLibraries
    BY <1>4, <1>5, <1>6, <2>8 DEF ResolveDependantLibraries, PhaseOK
  <2>9. CASE BuildImage
    BY <1>4, <1>5, <1>6, <2>9 DEF BuildImage, PhaseOK
  <2> QED
    BY <2>1, <2>2, <2>3, <2>4, <2>5, <2>6, <2>7, <2>8, <2>9 DEF Convert
<1> QED
  BY <1>1, <1>3, <1>7

LEMMA SymbolsKeep ==
  ASSUME ConvertInv, Convert
  PROVE  SymbolsOK'
<1>1. CASE ProcessSymbols
  BY <1>1, ProcessSymbolsTypes DEF ProcessSymbols, ConvertInv, SymbolsOK
<1>2. CASE BuildSymbolTables
  BY <1>2, BuildSymbolTablesTypes DEF BuildSymbolTables, ConvertInv, SymbolsOK
<1>3. CASE UNCHANGED <<symbols, exported, imported>>
  BY <1>3 DEF ConvertInv, SymbolsOK
<1> QED
  BY <1>1, <1>2, <1>3
  DEF Convert, FetchSections, ProcessRelocation, EndRelocations, ProcessDataRelocation,
      EndDataRelocations, ResolveDependantLibraries, BuildImage

(* The loop over the relocations of the GOT.                               *)
LEMMA ProcessRelocationKeeps ==
  ASSUME ConvertInv, ProcessRelocation
  PROVE  CollectedOK' /\ DataEntriesLead' /\ EntriesOK' /\ LoopsOK'
<1>1. /\ UNCHANGED arguments /\ UNCHANGED symbols /\ phase = "relocations"
      /\ phase' \in {"relocations", "failed"}
  BY DEF ProcessRelocation
<1>2. PICK s : s = Current
  OBVIOUS
<1>3. /\ CollectedOK'
      /\ \E e \in ListEntry : Grows(e) /\ SlotEntry(e) /\ e.type # "data"
      /\ phase' # "failed" => next' = next + 1 /\ SlotDone(s)'
  BY <1>2, ProcessRelocationAdds
<1>4. PICK e \in ListEntry : Grows(e) /\ SlotEntry(e) /\ e.type # "data"
  BY <1>3
<1>5. /\ \A k \in DOMAIN relocs'.list :
           \/ k \in DOMAIN relocs.list /\ relocs'.list[k] = relocs.list[k]
           \/ relocs'.list[k] = e
      /\ \A x : EntryLeads(x)' <=> EntryLeads(x)
      /\ \A x : SlotEntry(x)' <=> SlotEntry(x)
      /\ \A x : SlotDone(x) => SlotDone(x)'
  BY <1>1, <1>4, GrowthKeeps
<1>6. EntryLeads(e)
  BY <1>4 DEF EntryLeads
<1>7. DataEntriesLead'
  BY <1>5, <1>6 DEF ConvertInv, DataEntriesLead
<1>8. EntriesOK'
  BY <1>1, <1>4, <1>5 DEF ConvertInv, EntriesOK
<1>9. elf' = elf
  BY <1>1 DEF elf, arguments
<1>10. ASSUME NEW i \in DOMAIN elf.relocations, PastSlots(i)'
       PROVE  SlotDone(elf.relocations[i])'
  <2>1. phase' = "relocations" /\ i < next' /\ next' = next + 1
    BY <1>1, <1>3, <1>10 DEF PastSlots, AfterSlots, AfterDatas
  <2>2. i \in Nat /\ next \in Nat
    BY ElfFacts DEF ConvertInv, ArgumentsOK
  <2>3. CASE i = next
    <3>1. elf.relocations[i] = s
      BY <1>2, <2>3 DEF Current
    <3>2. SlotDone(s)'
      BY <1>3, <2>1
    <3>3. elf'.relocations[i] = s
      BY <1>9, <3>1
    <3> QED
      BY <3>2, <3>3 DEF SlotDone
  <2>4. CASE i # next
    <3>1. PastSlots(i)
      BY <1>1, <2>1, <2>2, <2>4 DEF PastSlots
    <3>2. SlotDone(elf.relocations[i])
      BY <3>1 DEF ConvertInv, LoopsOK
    <3>3. PICK x : x = elf.relocations[i]
      OBVIOUS
    <3>4. SlotDone(x)'
      BY <1>5, <3>2, <3>3
    <3>5. elf'.relocations[i] = x
      BY <1>9, <3>3
    <3> QED
      BY <3>4, <3>5 DEF SlotDone
  <2> QED
    BY <2>3, <2>4
<1>11. \A i : ~PastDatas(i)'
  BY <1>1 DEF PastDatas, AfterDatas
<1>12. LoopsOK'
  BY <1>9, <1>10, <1>11 DEF LoopsOK
<1> QED
  BY <1>3, <1>7, <1>8, <1>12

(* The loop over the relocations of the data.                              *)
LEMMA ProcessDataRelocationKeeps ==
  ASSUME ConvertInv, ProcessDataRelocation
  PROVE  CollectedOK' /\ DataEntriesLead' /\ EntriesOK' /\ LoopsOK'
<1>1. /\ UNCHANGED arguments /\ UNCHANGED symbols /\ phase = "data"
      /\ phase' \in {"data", "failed"}
  BY DEF ProcessDataRelocation
<1>2. PICK s : s = Current
  OBVIOUS
<1>3. /\ CollectedOK'
      /\ \E e \in ListEntry : Grows(e) /\ EntryLeads(e) /\ e.type = "data"
      /\ phase' # "failed" => next' = next + 1 /\ DataDone(s)'
  BY <1>2, ProcessDataRelocationAdds
<1>4. PICK e \in ListEntry : Grows(e) /\ EntryLeads(e) /\ e.type = "data"
  BY <1>3
<1>5. /\ \A k \in DOMAIN relocs'.list :
           \/ k \in DOMAIN relocs.list /\ relocs'.list[k] = relocs.list[k]
           \/ relocs'.list[k] = e
      /\ \A x : EntryLeads(x)' <=> EntryLeads(x)
      /\ \A x : SlotEntry(x)' <=> SlotEntry(x)
      /\ \A x : SlotDone(x) => SlotDone(x)'
      /\ \A x : DataDone(x) => DataDone(x)'
  BY <1>1, <1>4, GrowthKeeps
<1>6. SlotEntry(e)
  BY <1>4 DEF SlotEntry
<1>7. DataEntriesLead'
  BY <1>4, <1>5 DEF ConvertInv, DataEntriesLead
<1>8. EntriesOK'
  BY <1>1, <1>5, <1>6 DEF ConvertInv, EntriesOK
<1>9. elf' = elf
  BY <1>1 DEF elf, arguments
<1>10. ASSUME NEW i \in DOMAIN elf.relocations, PastDatas(i)'
       PROVE  DataDone(elf.relocations[i])'
  <2>1. phase' = "data" /\ i < next' /\ next' = next + 1
    BY <1>1, <1>3, <1>10 DEF PastDatas, AfterDatas
  <2>2. i \in Nat /\ next \in Nat
    BY ElfFacts DEF ConvertInv, ArgumentsOK
  <2>3. PICK x : x = elf.relocations[i]
    OBVIOUS
  <2>4. elf'.relocations[i] = x
    BY <1>9, <2>3
  <2>5. CASE i = next
    <3>1. x = s
      BY <1>2, <2>3, <2>5 DEF Current
    <3>2. DataDone(x)'
      BY <1>3, <2>1, <3>1
    <3> QED
      BY <2>4, <3>2
  <2>6. CASE i # next
    <3>1. PastDatas(i)
      BY <1>1, <2>1, <2>2, <2>6 DEF PastDatas
    <3>2. DataDone(x)
      BY <2>3, <3>1 DEF ConvertInv, LoopsOK
    <3>3. DataDone(x)'
      BY <1>5, <3>2
    <3> QED
      BY <2>4, <3>3
  <2> QED
    BY <2>5, <2>6
<1>11. ASSUME NEW i \in DOMAIN elf.relocations, PastSlots(i)'
       PROVE  SlotDone(elf.relocations[i])'
  <2>1. PICK x : x = elf.relocations[i]
    OBVIOUS
  <2>2. elf'.relocations[i] = x
    BY <1>9, <2>1
  <2>3. PastSlots(i)
    BY <1>1 DEF PastSlots, AfterSlots
  <2>4. SlotDone(x)
    BY <2>1, <2>3 DEF ConvertInv, LoopsOK
  <2>5. SlotDone(x)'
    BY <1>5, <2>4
  <2> QED
    BY <2>2, <2>5
<1>12. LoopsOK'
  BY <1>9, <1>10, <1>11 DEF LoopsOK
<1> QED
  BY <1>3, <1>7, <1>8, <1>12

(* Steps that collect nothing.                                             *)
LEMMA RestKeeps ==
  ASSUME ConvertInv, UNCHANGED arguments, UNCHANGED symbols, UNCHANGED relocs,
         \A i \in DOMAIN elf.relocations : /\ PastSlots(i)' => PastSlots(i)
                                           /\ PastDatas(i)' => PastDatas(i),
         phase' \in {"fetch", "symbols"} => phase \in {"fetch", "symbols"} /\ next' = next,
         phase' = "relocations" => phase = "relocations"
  PROVE  CollectedOK' /\ DataEntriesLead' /\ EntriesOK' /\ LoopsOK'
<1>1. Grows(0) /\ relocs'.list = relocs.list /\ elf' = elf
  BY DEF Grows, elf, arguments
<1>2. /\ \A x : EntryLeads(x)' <=> EntryLeads(x)
      /\ \A x : SlotEntry(x)' <=> SlotEntry(x)
      /\ \A x : SlotDone(x) => SlotDone(x)'
      /\ \A x : DataDone(x) => DataDone(x)'
  BY <1>1, GrowthKeeps
<1>3. DataEntriesLead'
  BY <1>1, <1>2 DEF ConvertInv, DataEntriesLead
<1>4. EntriesOK'
  BY <1>1, <1>2 DEF ConvertInv, EntriesOK
<1>5. ASSUME NEW i \in DOMAIN elf.relocations
      PROVE  /\ PastSlots(i)' => SlotDone(elf.relocations[i])'
             /\ PastDatas(i)' => DataDone(elf.relocations[i])'
  <2>1. PICK x : x = elf.relocations[i]
    OBVIOUS
  <2>2. elf'.relocations[i] = x
    BY <1>1, <2>1
  <2>3. /\ PastSlots(i)' => SlotDone(x)'
        /\ PastDatas(i)' => DataDone(x)'
    BY <1>2, <2>1 DEF ConvertInv, LoopsOK
  <2> QED
    BY <2>2, <2>3
<1>6. LoopsOK'
  BY <1>1, <1>5 DEF LoopsOK
<1>7. CollectedOK'
  BY DEF ConvertInv, CollectedOK
<1> QED
  BY <1>3, <1>4, <1>6, <1>7

LEMMA ListsKeep ==
  ASSUME ConvertInv, Convert
  PROVE  CollectedOK' /\ DataEntriesLead' /\ EntriesOK' /\ LoopsOK'
<1>1. UNCHANGED arguments /\ elf' = elf
  BY PhasesKeep DEF elf, arguments
<1>2. CASE ProcessRelocation
  BY <1>2, ProcessRelocationKeeps
<1>3. CASE ProcessDataRelocation
  BY <1>3, ProcessDataRelocationKeeps
<1>4. CASE ProcessSymbols
  <2>1. /\ relocs.list = <<>> /\ next = 1 /\ relocs' = relocs /\ next' = 1
        /\ phase' \in {"relocations", "failed"}
    BY <1>4 DEF ProcessSymbols, ConvertInv, EntriesOK
  <2>2. DataEntriesLead' /\ EntriesOK'
    BY <2>1 DEF DataEntriesLead, EntriesOK
  <2>3. ASSUME NEW i \in DOMAIN elf.relocations PROVE ~PastSlots(i)' /\ ~PastDatas(i)'
    <3>1. i \in Nat \ {0}
      BY ElfFacts DEF ConvertInv, ArgumentsOK
    <3> QED
      BY <2>1, <3>1 DEF PastSlots, PastDatas, AfterSlots, AfterDatas
  <2> QED
    BY <1>1, <2>1, <2>2, <2>3 DEF LoopsOK, ConvertInv, CollectedOK
<1>5. CASE FetchSections
  BY <1>1, <1>5, RestKeeps
  DEF FetchSections, PastSlots, PastDatas, AfterSlots, AfterDatas
<1>6. CASE EndRelocations
  <2>1. ASSUME NEW i \in DOMAIN elf.relocations PROVE PastSlots(i) /\ ~PastDatas(i)'
    <3>1. i \in 1..Len(elf.relocations) /\ Len(elf.relocations) \in Nat /\ next \in Nat
      BY ElfFacts DEF ConvertInv, ArgumentsOK
    <3> QED
      BY <1>6, <3>1 DEF EndRelocations, PastSlots, PastDatas, AfterDatas
  <2> QED
    BY <1>1, <1>6, <2>1, RestKeeps DEF EndRelocations
<1>7. CASE EndDataRelocations
  <2>1. ASSUME NEW i \in DOMAIN elf.relocations PROVE PastSlots(i) /\ PastDatas(i)
    <3>1. i \in 1..Len(elf.relocations) /\ Len(elf.relocations) \in Nat /\ next \in Nat
      BY ElfFacts DEF ConvertInv, ArgumentsOK
    <3> QED
      BY <1>7, <3>1 DEF EndDataRelocations, PastSlots, PastDatas, AfterSlots
  <2> QED
    BY <1>1, <1>7, <2>1, RestKeeps DEF EndDataRelocations
<1>8. CASE BuildSymbolTables
  BY <1>1, <1>8, RestKeeps
  DEF BuildSymbolTables, PastSlots, PastDatas, AfterSlots, AfterDatas
<1>9. CASE ResolveDependantLibraries
  BY <1>1, <1>9, RestKeeps
  DEF ResolveDependantLibraries, PastSlots, PastDatas, AfterSlots, AfterDatas
<1>10. CASE BuildImage
  <2>1. /\ phase = "build" /\ phase' \in {"written", "failed"}
        /\ UNCHANGED symbols /\ UNCHANGED relocs /\ UNCHANGED next
    BY <1>10 DEF BuildImage
  <2> QED
    BY <1>1, <2>1, RestKeeps DEF PastSlots, PastDatas, AfterSlots, AfterDatas
<1> QED
  BY <1>2, <1>3, <1>4, <1>5, <1>6, <1>7, <1>8, <1>9, <1>10 DEF Convert

(* The image depends on the arguments and the tables.                      *)
LEMMA SameTables ==
  ASSUME UNCHANGED arguments, UNCHANGED <<relocs, symbols, exported, imported, libs>>
  PROVE  /\ SlotTable' = SlotTable /\ \A r : TableOf(r)' = TableOf(r)
         /\ Packable(AllWords)' <=> Packable(AllWords)
         /\ Image(SlotTable, LocalTable, DataTable, AllWords)'
              = Image(SlotTable, LocalTable, DataTable, AllWords)
<1>1. elf' = elf /\ kind' = kind /\ libs' = libs
  BY DEF elf, arguments
<1>2. UNCHANGED <<relocs, symbols, exported, imported>>
  OBVIOUS
<1>3. SlotTable' = SlotTable /\ LocalTable' = LocalTable /\ DataTable' = DataTable
  BY <1>2 DEF SlotTable, LocalTable, DataTable, FilterRelocations, OfType
<1>4. \A r : TableOf(r)' = TableOf(r)
  BY <1>2 DEF TableOf
<1>5. \A r : /\ SymbolTableWords(r)' = SymbolTableWords(r)
             /\ LocalWords(r)' = LocalWords(r) /\ DataWords(r)' = DataWords(r)
  BY <1>1, <1>4 DEF SymbolTableWords, SymbolTableIndex, LocalWords, RelocationBase,
                    RelocationSection, DataWords
<1>6. AllWords' = AllWords
  BY <1>3, <1>5 DEF AllWords
<1>7. \A t : BinarySymbolTable(t)' = BinarySymbolTable(t)
  BY <1>1 DEF BinarySymbolTable, SymbolBase, SymbolSection
<1>8. \A t : TextOffset(t)' = TextOffset(t)
  BY <1>1, <1>2 DEF TextOffset
<1>9. \A t : Packable(t)' <=> Packable(t)
  BY <1>2, <1>7, <1>8 DEF Packable
<1>10. Body' = Body /\ DataLength' = DataLength /\ MainIsEntry' = MainIsEntry
  BY <1>1 DEF Body, Words, DataLength, MainIsEntry
<1>11. \A a, b, c, d : Image(a, b, c, d)' = Image(a, b, c, d)
  BY <1>1, <1>2, <1>7, <1>8, <1>10 DEF Image
<1> QED
  BY <1>3, <1>4, <1>6, <1>9, <1>11

(* Writing the image is the last step, and it is made of what is there.    *)
LEMMA ImageKeeps ==
  ASSUME ConvertInv, Convert
  PROVE  ImageOK'
<1>1. CASE BuildImage
  <2>1. UNCHANGED arguments /\ UNCHANGED libs
    BY <1>1 DEF BuildImage
  <2>2. UNCHANGED <<relocs, symbols, exported, imported>> /\ phase = "build"
    BY <1>1 DEF BuildImage
  <2>3. CASE phase' = "failed" /\ image' = image
    BY <2>2, <2>3 DEF ImageOK, ConvertInv
  <2>4. CASE /\ phase' = "written"
             /\ \A i \in DOMAIN SlotTable :
                  Named(TableOf(SlotTable[i]), SlotTable[i].name) # {}
             /\ Packable(AllWords)
             /\ image' = Image(SlotTable, LocalTable, DataTable, AllWords)
    <3>1. /\ SlotTable' = SlotTable /\ \A r : TableOf(r)' = TableOf(r)
          /\ Packable(AllWords)' <=> Packable(AllWords)
          /\ Image(SlotTable, LocalTable, DataTable, AllWords)'
               = Image(SlotTable, LocalTable, DataTable, AllWords)
      BY <2>1, <2>2, SameTables
    <3> QED
      BY <2>4, <3>1 DEF ImageOK
  <2> QED
    BY <1>1, <2>3, <2>4 DEF BuildImage, SlotTable, LocalTable, DataTable, AllWords
<1>2. CASE UNCHANGED image /\ phase # "written" /\ phase' # "written"
  BY <1>2 DEF ConvertInv, ImageOK
<1> QED
  BY <1>1, <1>2
  DEF Convert, FetchSections, ProcessSymbols, ProcessRelocation, EndRelocations,
      ProcessDataRelocation, EndDataRelocations, BuildSymbolTables, ResolveDependantLibraries

LEMMA StartsWell == Start => ConvertInv
<1> SUFFICES ASSUME Start PROVE ConvertInv
  OBVIOUS
<1>1. relocs = [list |-> <<>>, omitted |-> <<>>, index |-> 0] /\ next = 1
      /\ phase = "fetch" /\ image = NoImage
      /\ symbols = <<>> /\ exported = <<>> /\ imported = <<>>
  BY DEF Start
<1>2. CollectedOK
  BY <1>1 DEF CollectedOK
<1>3. ArgumentsOK /\ PhaseOK
  BY DEF Start, ArgumentsOK, PhaseOK, AfterSlots, AfterDatas
<1>4. DataEntriesLead /\ SymbolsOK /\ EntriesOK
  BY <1>1 DEF DataEntriesLead, SymbolsOK, EntriesOK
<1>5. LoopsOK /\ ImageOK
  BY <1>1 DEF LoopsOK, PastSlots, PastDatas, AfterSlots, AfterDatas, ImageOK
<1> QED
  BY <1>2, <1>3, <1>4, <1>5 DEF ConvertInv

LEMMA StepsKeep ==
  ASSUME ConvertInv, [Convert]_vars
  PROVE  ConvertInv'
<1>1. CASE Convert
  BY <1>1, PhasesKeep, SymbolsKeep, ListsKeep, ImageKeeps DEF ConvertInv
<1>2. CASE UNCHANGED vars
  <2>1. /\ UNCHANGED arguments /\ UNCHANGED symbols /\ UNCHANGED relocs
        /\ UNCHANGED <<phase, next, exported, imported, libs, image>>
    BY <1>2 DEF vars, arguments
  <2>2. elf' = elf /\ kind' = kind
    BY <2>1 DEF elf, arguments
  <2>3. CollectedOK' /\ DataEntriesLead' /\ EntriesOK' /\ LoopsOK'
    BY <2>1, RestKeeps DEF PastSlots, PastDatas
  <2>4. ArgumentsOK' /\ PhaseOK' /\ SymbolsOK'
    BY <2>1, <2>2
    DEF arguments, ConvertInv, ArgumentsOK, PhaseOK, SymbolsOK, SectionsAccepted, Address
  <2>5. ImageOK'
    <3>1. CASE phase # "written"
      BY <2>1, <3>1 DEF ConvertInv, ImageOK
    <3>2. CASE phase = "written"
      <4>1. /\ SlotTable' = SlotTable /\ \A r : TableOf(r)' = TableOf(r)
            /\ Packable(AllWords)' <=> Packable(AllWords)
            /\ Image(SlotTable, LocalTable, DataTable, AllWords)'
                 = Image(SlotTable, LocalTable, DataTable, AllWords)
        BY <2>1, SameTables
      <4> QED
        BY <2>1, <3>2, <4>1 DEF ConvertInv, ImageOK
    <3> QED
      BY <3>1, <3>2
  <2> QED
    BY <2>3, <2>4, <2>5 DEF ConvertInv
<1> QED
  BY <1>1, <1>2

LEMMA ConvertInvariant == ConvertSpec => []ConvertInv
<1>1. Start => ConvertInv
  BY StartsWell
<1>2. ConvertInv /\ [Convert]_vars => ConvertInv'
  BY StepsKeep
<1> QED
  BY <1>1, <1>2, PTL DEF ConvertSpec

(* Whatever files are converted, every data relocation mkimage.py collects *)
(* for an image without initializers is one of the linker's, at the place  *)
(* the linker gave it and leading to the address the linker put there.     *)
THEOREM DataEntriesAlwaysLead == ConvertSpec => []DataEntriesLead
<1>1. ConvertInv => DataEntriesLead
  BY DEF ConvertInv
<1> QED
  BY <1>1, ConvertInvariant, PTL
-----------------------------------------------------------------------------
(* The tables of the image.                                                *)
LEMMA FunctionIsSeq ==
  ASSUME NEW W, NEW n \in Nat, NEW s \in [1..n -> W]
  PROVE  s \in Seq(W) /\ Len(s) = n
OBVIOUS

(* Every entry of a type gets into its table, of those of one name that    *)
(* are for slots the first.                                                *)
LEMMA TableFacts ==
  ASSUME ConvertInv
  PROVE  /\ SlotTable \in Seq(ListEntry) /\ LocalTable \in Seq(ListEntry)
         /\ DataTable \in Seq(ListEntry)
         /\ \A k \in DOMAIN SlotTable : \E j \in DOMAIN relocs.list :
              relocs.list[j].type = "symbol_table" /\ SlotTable[k] = relocs.list[j]
         /\ \A k \in DOMAIN LocalTable : LocalTable[k].type = "local"
         /\ \A k \in DOMAIN DataTable : \E j \in DOMAIN relocs.list :
              relocs.list[j].type = "data" /\ DataTable[k] = relocs.list[j]
         /\ \A j \in DOMAIN relocs.list : relocs.list[j].type = "symbol_table" =>
              \E k \in DOMAIN SlotTable : SlotTable[k].name = relocs.list[j].name
         /\ \A j \in DOMAIN relocs.list : relocs.list[j].type = "data" =>
              \E k \in DOMAIN DataTable : DataTable[k] = relocs.list[j]
<1> DEFINE list == relocs.list
<1>1. list \in Seq(ListEntry)
  BY DEF ConvertInv, CollectedOK
<1>2. ASSUME NEW type
      PROVE  /\ OfType(type) \in Seq(ListEntry)
             /\ \A k \in DOMAIN OfType(type) : \E j \in DOMAIN list :
                  list[j].type = type /\ OfType(type)[k] = list[j]
             /\ \A j \in DOMAIN list : list[j].type = type =>
                  \E k \in DOMAIN OfType(type) : OfType(type)[k] = list[j]
  <2> DEFINE places == {i \in DOMAIN list : list[i].type = type}
             t == Select(list, places)
  <2> HIDE DEF list
  <2>1. /\ t \in Seq(ListEntry)
        /\ \A k \in DOMAIN t : \E i \in DOMAIN list : i \in places /\ t[k] = list[i]
        /\ \A i \in DOMAIN list : i \in places => \E k \in DOMAIN t : t[k] = list[i]
    <3> HIDE DEF places
    <3> QED
      BY <1>1, SelectFacts
  <2> QED
    BY <2>1 DEF OfType, list
<1> HIDE DEF list
<1>3. LocalTable = OfType("local") /\ DataTable = OfType("data")
      /\ SlotTable = WithoutDuplicates(OfType("symbol_table"))
  BY DEF LocalTable, DataTable, SlotTable, FilterRelocations
<1> DEFINE all == OfType("symbol_table")
<1>4. /\ all \in Seq(ListEntry)
      /\ \A k \in DOMAIN all : \E j \in DOMAIN list :
           list[j].type = "symbol_table" /\ all[k] = list[j]
      /\ \A j \in DOMAIN list : list[j].type = "symbol_table" =>
           \E k \in DOMAIN all : all[k] = list[j]
  BY <1>2
<1> HIDE DEF all
<1>5. /\ SlotTable \in Seq(ListEntry)
      /\ \A k \in DOMAIN SlotTable : \E i \in DOMAIN all : SlotTable[k] = all[i]
      /\ \A i \in DOMAIN all : i \in FirstOnes(all) =>
           \E k \in DOMAIN SlotTable : SlotTable[k] = all[i]
  BY <1>3, <1>4, SelectFacts DEF WithoutDuplicates, all
<1>6. ASSUME NEW j \in DOMAIN list, list[j].type = "symbol_table"
      PROVE  \E k \in DOMAIN SlotTable : SlotTable[k].name = list[j].name
  <2>1. PICK i \in DOMAIN all : all[i] = list[j]
    BY <1>4, <1>6
  <2>2. PICK f \in DOMAIN all : f \in FirstOnes(all) /\ all[f].name = all[i].name
    BY <1>4, FirstOnesNameAll
  <2> QED
    BY <1>5, <2>1, <2>2
<1>7. \A k \in DOMAIN SlotTable : \E j \in DOMAIN list :
        list[j].type = "symbol_table" /\ SlotTable[k] = list[j]
  BY <1>4, <1>5
<1>8. /\ LocalTable \in Seq(ListEntry) /\ DataTable \in Seq(ListEntry)
      /\ \A k \in DOMAIN LocalTable : LocalTable[k].type = "local"
      /\ \A k \in DOMAIN DataTable : \E j \in DOMAIN list :
           list[j].type = "data" /\ DataTable[k] = list[j]
      /\ \A j \in DOMAIN list : list[j].type = "data" =>
           \E k \in DOMAIN DataTable : DataTable[k] = list[j]
  BY <1>2, <1>3
<1> QED
  BY <1>5, <1>6, <1>7, <1>8 DEF list

(* The table of relocations is the three tables one behind the other.      *)
LEMMA AllWordsFacts ==
  ASSUME ConvertInv
  PROVE  LET a == Len(SlotTable)
             b == Len(LocalTable)
             c == Len(DataTable)
         IN  /\ a \in Nat /\ b \in Nat /\ c \in Nat
             /\ DOMAIN SlotTable = 1..a /\ DOMAIN LocalTable = 1..b /\ DOMAIN DataTable = 1..c
             /\ DOMAIN AllWords = 1..a + b + c
             /\ \A k \in 1..a : AllWords[k] = SymbolTableWords(SlotTable[k])
             /\ \A k \in 1..b : AllWords[a + k] = LocalWords(LocalTable[k])
             /\ \A k \in 1..c : AllWords[a + b + k] = DataWords(DataTable[k])
<1> DEFINE a == Len(SlotTable)
           b == Len(LocalTable)
           c == Len(DataTable)
           W == {SymbolTableWords(r) : r \in ListEntry} \cup {LocalWords(r) : r \in ListEntry}
                  \cup {DataWords(r) : r \in ListEntry}
           s == [i \in DOMAIN SlotTable |-> SymbolTableWords(SlotTable[i])]
           l == [i \in DOMAIN LocalTable |-> LocalWords(LocalTable[i])]
           d == [i \in DOMAIN DataTable |-> DataWords(DataTable[i])]
<1>1. /\ SlotTable \in Seq(ListEntry) /\ LocalTable \in Seq(ListEntry)
      /\ DataTable \in Seq(ListEntry)
  BY TableFacts
<1>2. /\ a \in Nat /\ b \in Nat /\ c \in Nat
      /\ DOMAIN SlotTable = 1..a /\ DOMAIN LocalTable = 1..b /\ DOMAIN DataTable = 1..c
      /\ \A k \in 1..a : SlotTable[k] \in ListEntry
      /\ \A k \in 1..b : LocalTable[k] \in ListEntry
      /\ \A k \in 1..c : DataTable[k] \in ListEntry
  BY <1>1
<1> HIDE DEF a, b, c
<1>3. s \in [1..a -> W] /\ l \in [1..b -> W] /\ d \in [1..c -> W]
  <2>1. \A r \in ListEntry : SymbolTableWords(r) \in W /\ LocalWords(r) \in W /\ DataWords(r) \in W
    OBVIOUS
  <2> HIDE DEF W
  <2> QED
    BY <1>2, <2>1
<1>4. /\ \A k \in 1..a : s[k] = SymbolTableWords(SlotTable[k])
      /\ \A k \in 1..b : l[k] = LocalWords(LocalTable[k])
      /\ \A k \in 1..c : d[k] = DataWords(DataTable[k])
  BY <1>2
<1>5. AllWords = (s \o l) \o d
  BY DEF AllWords
<1> HIDE DEF s, l, d, W
<1>6. /\ s \in Seq(W) /\ l \in Seq(W) /\ d \in Seq(W)
      /\ Len(s) = a /\ Len(l) = b /\ Len(d) = c
  BY <1>2, <1>3, FunctionIsSeq
<1>7. /\ s \o l \in Seq(W) /\ Len(s \o l) = a + b
      /\ \A k \in 1..a + b : (s \o l)[k] = IF k <= a THEN s[k] ELSE l[k - a]
  BY <1>6, ConcatProperties
<1>8. /\ AllWords \in Seq(W) /\ Len(AllWords) = a + b + c
      /\ \A k \in 1..a + b + c :
           AllWords[k] = IF k <= a + b THEN (s \o l)[k] ELSE d[k - (a + b)]
  <2> DEFINE sl == s \o l
  <2>1. sl \in Seq(W) /\ Len(sl) = a + b
    BY <1>7
  <2> HIDE DEF sl
  <2>2. sl \in Seq(W) /\ d \in Seq(W)
    BY <1>6, <2>1
  <2>3. /\ sl \o d \in Seq(W) /\ Len(sl \o d) = Len(sl) + Len(d)
        /\ \A k \in 1..Len(sl) + Len(d) :
             (sl \o d)[k] = IF k <= Len(sl) THEN sl[k] ELSE d[k - Len(sl)]
    BY <2>2, ConcatProperties
  <2> QED
    BY <1>5, <1>6, <2>1, <2>3 DEF sl
<1>9. DOMAIN AllWords = 1..a + b + c
  BY <1>8
<1>10. ASSUME NEW k \in 1..a PROVE AllWords[k] = SymbolTableWords(SlotTable[k])
  <2>1. k \in 1..a + b + c /\ k <= a + b /\ k \in 1..a + b /\ k <= a
    BY <1>2
  <2> QED
    BY <1>4, <1>7, <1>8, <2>1
<1>11. ASSUME NEW k \in 1..b PROVE AllWords[a + k] = LocalWords(LocalTable[k])
  <2>1. /\ a + k \in 1..a + b + c /\ a + k <= a + b /\ a + k \in 1..a + b /\ ~(a + k <= a)
        /\ (a + k) - a = k
    BY <1>2
  <2> QED
    BY <1>4, <1>7, <1>8, <2>1
<1>12. ASSUME NEW k \in 1..c PROVE AllWords[a + b + k] = DataWords(DataTable[k])
  <2>1. /\ a + b + k \in 1..a + b + c /\ ~(a + b + k <= a + b) /\ (a + b + k) - (a + b) = k
    BY <1>2
  <2> QED
    BY <1>4, <1>8, <2>1
<1> QED
  BY <1>2, <1>9, <1>10, <1>11, <1>12 DEF a, b, c

(* The fields of an image that has been written.                           *)
LEMMA ImageFields ==
  ASSUME ConvertInv, image.written
  PROVE  /\ phase = "written" /\ SectionsAccepted /\ "got" \in elf.has
         /\ input \in DOMAIN Elfs
         /\ image.amounts.slots = Len(SlotTable)
         /\ image.amounts.locals = Len(LocalTable)
         /\ image.amounts.datas = Len(DataTable)
         /\ image.relocations = AllWords
         /\ image.exported = BinarySymbolTable(exported)
         /\ image.imported = BinarySymbolTable(imported)
         /\ image.body = Body
         /\ \A i \in DOMAIN AllWords : AllWords[i].first >= 0 /\ AllWords[i].second >= 0
         /\ \A i \in DOMAIN SlotTable : Named(TableOf(SlotTable[i]), SlotTable[i].name) # {}
<1>1. phase = "written"
  BY DEF ConvertInv, ImageOK, NoImage
<1>2. /\ image = Image(SlotTable, LocalTable, DataTable, AllWords) /\ Packable(AllWords)
      /\ \A i \in DOMAIN SlotTable : Named(TableOf(SlotTable[i]), SlotTable[i].name) # {}
  BY <1>1 DEF ConvertInv, ImageOK
<1>3. SectionsAccepted /\ "got" \in elf.has /\ input \in DOMAIN Elfs
  BY <1>1 DEF ConvertInv, PhaseOK, ArgumentsOK, AfterSlots, AfterDatas
<1>4. \A i \in DOMAIN AllWords : AllWords[i].first >= 0 /\ AllWords[i].second >= 0
  BY <1>2 DEF Packable
<1>5. /\ image.amounts.slots = Len(SlotTable)
      /\ image.amounts.locals = Len(LocalTable)
      /\ image.amounts.datas = Len(DataTable)
      /\ image.relocations = AllWords
      /\ image.exported = BinarySymbolTable(exported)
      /\ image.imported = BinarySymbolTable(imported)
      /\ image.body = Body
  BY <1>2 DEF Image
<1> QED
  BY <1>1, <1>2, <1>3, <1>4, <1>5

LEMMA BinaryTableFacts ==
  ASSUME NEW t \in Seq(KnownSymbol)
  PROVE  /\ DOMAIN BinarySymbolTable(t) = DOMAIN t /\ Len(BinarySymbolTable(t)) = Len(t)
         /\ \A i \in DOMAIN t :
              /\ BinarySymbolTable(t)[i].name = t[i].name
              /\ BinarySymbolTable(t)[i].word =
                   Encoded(t[i].value - SymbolBase(SymbolSection(t[i])), SymbolSection(t[i]))
<1> DEFINE b == BinarySymbolTable(t)
<1>1. b = [i \in DOMAIN t |->
            [word |-> Encoded(t[i].value - SymbolBase(SymbolSection(t[i])),
                              SymbolSection(t[i])),
             name |-> t[i].name]]
  BY DEF BinarySymbolTable
<1>2. DOMAIN t = 1..Len(t) /\ Len(t) \in Nat
  OBVIOUS
<1>3. DOMAIN b = DOMAIN t
  BY <1>1
<1>4. Len(b) = Len(t)
  <2>1. b \in [1..Len(t) -> {b[i] : i \in 1..Len(t)}]
    BY <1>1, <1>2, <1>3
  <2> HIDE DEF b
  <2> QED
    BY <1>2, <2>1, FunctionIsSeq
<1> QED
  BY <1>1, <1>3, <1>4

(* An entry for a slot, as the image writes it: the slot it is about was   *)
(* reserved for its symbol, and the number selects that symbol.            *)
LEMMA SlotWords ==
  ASSUME ConvertInv, image.written, NEW k \in 1..image.amounts.slots
  PROVE  LET rel == image.relocations[k]
             table == IF rel.first % 2 = 1 THEN image.exported ELSE image.imported
             n == SlotTable[k].name
         IN  /\ rel.second \in Nat /\ rel.second < Len(table)
             /\ table[rel.second + 1].name = n
             /\ rel.first >= 0
             /\ \E i \in DOMAIN elf.relocations :
                  /\ elf.relocations[i].symbol.name = n
                  /\ elf.relocations[i].type \in ForGot
                  /\ elf.relocations[i].offset = elf.addr["got"] + 2 * (rel.first \div 2)
<1> DEFINE e == SlotTable[k]
           t == TableOf(e)
           rel == image.relocations[k]
<1>1. /\ k \in DOMAIN SlotTable /\ rel = SymbolTableWords(e)
      /\ rel.first >= 0
      /\ Named(t, e.name) # {}
      /\ e \in ListEntry /\ SlotEntry(e) /\ e.type = "symbol_table"
  <2>1. k \in DOMAIN SlotTable /\ AllWords[k] = SymbolTableWords(e) /\ k \in DOMAIN AllWords
    BY AllWordsFacts, ImageFields
  <2>2. PICK j \in DOMAIN relocs.list :
          relocs.list[j].type = "symbol_table" /\ SlotTable[k] = relocs.list[j]
    BY <2>1, TableFacts
  <2>3. e \in ListEntry /\ SlotEntry(e) /\ e.type = "symbol_table"
    BY <2>2 DEF ConvertInv, CollectedOK, EntriesOK
  <2> QED
    BY <2>1, <2>3, ImageFields
<1>2. e.index \in Int /\ e.exported \in BOOLEAN
  BY <1>1 DEF ListEntry, Entry
<1>3. t \in Seq(KnownSymbol)
  BY DEF TableOf, ConvertInv, SymbolsOK
<1> DEFINE found == Named(t, e.name)
<1>4. rel.first = 2 * e.index + (IF e.exported THEN 1 ELSE 0)
      /\ rel.second = (CHOOSE i \in found : \A j \in found : i <= j) - 1
  BY <1>1 DEF SymbolTableWords, SymbolTableIndex
<1>5. (rel.first % 2 = 1 <=> e.exported) /\ rel.first \div 2 = e.index
  BY <1>2, <1>4
<1>6. (IF rel.first % 2 = 1 THEN image.exported ELSE image.imported) = BinarySymbolTable(t)
  BY <1>5, ImageFields DEF TableOf
<1>7. rel.second + 1 \in found /\ rel.second + 1 \in 1..Len(t)
  <2>1. found \subseteq 1..Len(t) /\ Len(t) \in Nat
    BY <1>3 DEF Named
  <2>2. \E i \in found : \A j \in found : i <= j
    <3>1. found # {}
      BY <1>1
    <3> HIDE DEF found
    <3> QED
      BY <2>1, <3>1, FirstAndLast
  <2> DEFINE m == CHOOSE i \in found : \A j \in found : i <= j
  <2>3. m \in found
    BY <2>2
  <2>4. m \in Int /\ rel.second = m - 1
    BY <1>4, <2>1, <2>3
  <2>5. rel.second + 1 = m
    <3> HIDE DEF m, rel
    <3> QED
      BY <2>4
  <2> QED
    BY <2>1, <2>3, <2>5
<1>8. t[rel.second + 1].name = e.name
  BY <1>7 DEF Named
<1>9. rel.second \in Nat /\ rel.second < Len(t)
  <2>1. rel.second \in Int
    <3>1. found \subseteq Int
      BY <1>3 DEF Named
    <3>2. \E i \in found : \A j \in found : i <= j
      <4>1. found \subseteq 1..Len(t) /\ Len(t) \in Nat /\ found # {}
        BY <1>1, <1>3 DEF Named
      <4> HIDE DEF found
      <4> QED
        BY <4>1, FirstAndLast
    <3> QED
      BY <1>4, <3>1, <3>2
  <2> QED
    BY <1>3, <1>7, <2>1
<1>10. /\ rel.second < Len(BinarySymbolTable(t))
       /\ BinarySymbolTable(t)[rel.second + 1].name = e.name
  <2>1. DOMAIN t = 1..Len(t)
    BY <1>3
  <2> QED
    BY <1>3, <1>7, <1>8, <1>9, <2>1, BinaryTableFacts
<1>11. PICK i \in DOMAIN elf.relocations :
         /\ elf.relocations[i].type \in ForGot
         /\ e.name = elf.relocations[i].symbol.name
         /\ e.index = GotIndex(elf.relocations[i].offset)
  BY <1>1 DEF SlotEntry
<1> DEFINE r == elf.relocations[i]
           distance == r.offset - elf.addr["got"]
<1>12. r.offset \in Nat /\ elf.addr["got"] \in Nat
  <2>1. elf.relocations \in Seq(Relocation) /\ elf.addr \in [Section -> Nat]
    BY ImageFields, ElfFacts
  <2>2. r \in Relocation
    BY <2>1
  <2> QED
    BY <2>1, <2>2 DEF Relocation, Section
<1>13. /\ r.type \in {"R_ARM_GLOB_DAT", "R_ARM_JUMP_SLOT"} => distance % 2 = 0
       /\ r.type = "R_ARM_GOT_BREL" => distance < -1
  BY ImageFields, SlotAssumption DEF elf
<1>14. distance % 2 = 0 \/ distance < -1
  BY <1>11, <1>13 DEF ForGot
<1>15. e.index >= 0
  BY <1>1, <1>2, <1>4
<1>16. r.offset = elf.addr["got"] + 2 * e.index
  <2>1. e.index = IF distance >= 0 THEN distance \div 2 ELSE -((-distance) \div 2)
    BY <1>11 DEF GotIndex
  <2>2. distance \in Int /\ r.offset = elf.addr["got"] + distance
    BY <1>12
  <2> HIDE DEF distance
  <2>3. CASE distance >= 0
    <3>1. distance % 2 = 0
      BY <1>14, <2>2, <2>3
    <3>2. distance = 2 * (distance \div 2)
      BY <2>2, <3>1
    <3> QED
      BY <2>1, <2>2, <2>3, <3>2
  <2>4. CASE distance < 0
    <3>1. distance <= -2
      BY <1>14, <2>2, <2>4
    <3>2. (-distance) \div 2 >= 1 /\ (-distance) \div 2 \in Int
      BY <2>2, <3>1
    <3> QED
      BY <1>2, <1>15, <2>1, <2>2, <2>4, <3>2
  <2> QED
    BY <2>2, <2>3, <2>4
<1> HIDE DEF rel, t
<1> QED
  BY <1>1, <1>5, <1>6, <1>9, <1>10, <1>11, <1>16 DEF rel

(* Whatever files are converted, the symbol table relocations of the image *)
(* name the slots the linker reserved and the symbols it reserved them     *)
(* for, and no symbol with a slot is forgotten.                            *)
LEMMA EntriesName ==
  ASSUME ConvertInv
  PROVE  EntriesNameTheirSymbol
<1> SUFFICES ASSUME image.written PROVE EntriesNameTheirSymbol
  BY DEF EntriesNameTheirSymbol
<1> DEFINE slots == 1..image.amounts.slots
           rel(k) == image.relocations[k]
           table(k) == IF rel(k).first % 2 = 1 THEN image.exported ELSE image.imported
           name(k) == table(k)[rel(k).second + 1].name
<1>1. ASSUME NEW k \in slots
      PROVE  /\ rel(k).second < Len(table(k)) /\ name(k) = SlotTable[k].name
             /\ \E i \in DOMAIN elf.relocations :
                  /\ elf.relocations[i].symbol.name = name(k)
                  /\ elf.relocations[i].type \in ForGot
                  /\ elf.relocations[i].offset = elf.addr["got"] + 2 * (rel(k).first \div 2)
  BY SlotWords
<1>2. ASSUME NEW i \in DOMAIN elf.relocations,
             elf.relocations[i].type \in {"R_ARM_GLOB_DAT", "R_ARM_JUMP_SLOT"}
      PROVE  \/ \E k \in slots : name(k) = elf.relocations[i].symbol.name
             \/ \E k \in Named(relocs.list, elf.relocations[i].symbol.name) :
                  relocs.list[k].type = "local"
  <2>1. PastSlots(i)
    BY ImageFields DEF PastSlots, AfterSlots, AfterDatas
  <2>2. PICK j \in DOMAIN relocs.list :
          relocs.list[j].name = elf.relocations[i].symbol.name /\ relocs.list[j].type # "data"
    BY <1>2, <2>1 DEF ConvertInv, LoopsOK, SlotDone
  <2>3. relocs.list[j] \in ListEntry
    BY DEF ConvertInv, CollectedOK
  <2>4. relocs.list[j].type \in {"local", "symbol_table"}
    BY <2>2, <2>3 DEF ListEntry, Entry
  <2>5. CASE relocs.list[j].type = "local"
    BY <2>2, <2>5 DEF Named
  <2>6. CASE relocs.list[j].type = "symbol_table"
    <3>1. PICK k \in DOMAIN SlotTable : SlotTable[k].name = relocs.list[j].name
      BY <2>6, TableFacts
    <3>2. k \in slots
      BY AllWordsFacts, ImageFields
    <3> QED
      BY <1>1, <2>2, <3>1, <3>2
  <2> QED
    BY <2>4, <2>5, <2>6
<1> QED
  BY <1>1, <1>2 DEF EntriesNameTheirSymbol

(* EntriesNameTheirSymbol for every set of linked files.                   *)
THEOREM EntriesAlwaysNameTheirSymbol == ConvertSpec => []EntriesNameTheirSymbol
<1>1. ConvertInv => EntriesNameTheirSymbol
  BY EntriesName
<1> QED
  BY <1>1, ConvertInvariant, PTL
-----------------------------------------------------------------------------
(* The loader: where the parts of the image are.                           *)
LEMMA Sizes ==
  ASSUME ConvertInv, image.written
  PROVE  /\ \A s \in {"text", "init", "bss", "got", "gotplt", "plt"} : Size(s) = elf.size[s]
         /\ Size("data") = DataLength
<1>1. image = Image(SlotTable, LocalTable, DataTable, AllWords)
  BY ImageFields DEF ConvertInv, ImageOK
<1>2. image.size = [s \in {"text", "init", "data", "bss", "got", "gotplt", "plt"} |->
                      IF s = "data" THEN DataLength ELSE elf.size[s]]
  BY <1>1 DEF Image
<1> QED
  BY <1>2 DEF Size

LEMMA Places ==
  ASSUME ConvertInv, image.written
  PROVE  /\ Size("data") \in Nat /\ Size("bss") \in Nat /\ Size("got") \in Nat
         /\ FlashLength \in Nat /\ GotOffset \in Nat /\ RamLength \in Nat
         /\ GotOffset = Size("data") + Size("bss") /\ RamLength = GotOffset + Size("got")
         /\ Size("data") = elf.size["rodata"] + elf.size["data"]
         /\ FlashLength = DataStart
         /\ FlashLength = elf.size["text"] + elf.size["init"] + elf.size["plt"]
         /\ elf.addr["data"] = FlashLength + elf.size["rodata"]
         /\ "rodata" \in elf.has => elf.addr["rodata"] = FlashLength
         /\ "rodata" \notin elf.has => elf.size["rodata"] = 0
         /\ elf.addr["bss"] = FlashLength + Size("data")
         /\ elf.addr["got"] = FlashLength + GotOffset
<1> DEFINE n == elf.size
<1>1. /\ SectionsAccepted /\ "got" \in elf.has /\ input \in DOMAIN Elfs
  BY ImageFields
<1>2. /\ n["text"] \in Nat /\ n["init"] \in Nat /\ n["plt"] \in Nat /\ n["rodata"] \in Nat
      /\ n["data"] \in Nat /\ n["bss"] \in Nat /\ n["got"] \in Nat
      /\ elf.addr["rodata"] \in Nat
  BY <1>1, SizesAreNatural
<1>3. /\ elf.addr["data"] = n["text"] + n["init"] + n["plt"] + n["rodata"]
      /\ elf.addr["bss"] = n["text"] + n["init"] + n["plt"] + n["rodata"] + n["data"]
      /\ elf.addr["got"] = n["text"] + n["init"] + n["plt"] + n["rodata"] + n["data"] + n["bss"]
  <2>1. /\ elf.addr["data"] = Address["data"] /\ elf.addr["bss"] = Address["bss"]
        /\ elf.addr["got"] = Address["got"]
    BY <1>1 DEF SectionsAccepted
  <2>2. /\ Address["data"] = n["text"] + n["init"] + n["plt"] + n["rodata"]
        /\ Address["bss"] = n["text"] + n["init"] + n["plt"] + n["rodata"] + n["data"]
        /\ Address["got"] =
             n["text"] + n["init"] + n["plt"] + n["rodata"] + n["data"] + n["bss"]
    BY DEF Address
  <2> QED
    BY <2>1, <2>2
<1>4. /\ Size("text") = n["text"] /\ Size("init") = n["init"] /\ Size("plt") = n["plt"]
      /\ Size("bss") = n["bss"] /\ Size("got") = n["got"]
      /\ Size("data") = n["rodata"] + n["data"]
  BY Sizes DEF DataLength
<1>5. /\ "rodata" \in elf.has => elf.addr["rodata"] + n["rodata"] = elf.addr["data"]
      /\ "rodata" \notin elf.has => n["rodata"] = 0
  BY <1>1, ElfFacts DEF Section
<1>6. DataStart = IF "rodata" \in elf.has THEN elf.addr["rodata"] ELSE elf.addr["data"]
  BY DEF DataStart, StartOfData
<1> HIDE DEF n
<1>7. /\ FlashLength = n["text"] + n["init"] + n["plt"]
      /\ GotOffset = n["rodata"] + n["data"] + n["bss"]
      /\ RamLength = GotOffset + n["got"]
  BY <1>4 DEF FlashLength, GotOffset, RamLength
<1>8. "rodata" \in elf.has => elf.addr["rodata"] = FlashLength
  <2> SUFFICES ASSUME "rodata" \in elf.has PROVE elf.addr["rodata"] = FlashLength
    OBVIOUS
  <2>1. elf.addr["rodata"] + n["rodata"] = FlashLength + n["rodata"]
    BY <1>3, <1>5, <1>7
  <2>2. FlashLength \in Int
    BY <1>2, <1>7
  <2> QED
    BY <1>2, <2>1, <2>2
<1>9. FlashLength = DataStart
  BY <1>2, <1>3, <1>5, <1>6, <1>7, <1>8
<1>10. /\ elf.addr["data"] = FlashLength + n["rodata"]
       /\ elf.addr["bss"] = FlashLength + Size("data")
       /\ elf.addr["got"] = FlashLength + GotOffset
  BY <1>2, <1>3, <1>4, <1>7
<1>11. /\ Size("data") \in Nat /\ Size("bss") \in Nat /\ Size("got") \in Nat
       /\ FlashLength \in Nat /\ GotOffset \in Nat /\ RamLength \in Nat
       /\ GotOffset = Size("data") + Size("bss") /\ RamLength = GotOffset + Size("got")
  BY <1>2, <1>4, <1>7
<1> QED
  BY <1>4, <1>5, <1>7, <1>8, <1>9, <1>10, <1>11 DEF n

(* The words of the sections one behind the other.                         *)
LEMMA SectionWords ==
  ASSUME input \in DOMAIN Elfs, NEW s \in Section
  PROVE  /\ Words(s) \in Seq(Nat) /\ Len(Words(s)) = elf.size[s]
         /\ \A k \in 1..elf.size[s] : Words(s)[k] = elf.word[elf.addr[s] + k - 1]
<1>1. /\ elf.size[s] \in Nat /\ elf.addr[s] \in Nat
      /\ elf.addr[s] + elf.size[s] <= MaxAddress + 1
      /\ elf.word \in [0..MaxAddress -> Nat] /\ MaxAddress \in Nat
  BY ElfFacts
<1> DEFINE n == elf.size[s]
<1>2. ASSUME NEW k \in 1..n PROVE elf.word[elf.addr[s] + k - 1] \in Nat
  <2>1. elf.addr[s] + k - 1 \in 0..MaxAddress
    BY <1>1
  <2> QED
    BY <1>1, <2>1
<1>3. Words(s) = [k \in 1..n |-> elf.word[elf.addr[s] + k - 1]]
  BY DEF Words
<1> HIDE DEF n
<1>4. Words(s) \in [1..n -> Nat]
  BY <1>2, <1>3
<1>5. Words(s) \in Seq(Nat) /\ Len(Words(s)) = n
  BY <1>1, <1>4, FunctionIsSeq DEF n
<1>6. \A k \in 1..n : Words(s)[k] = elf.word[elf.addr[s] + k - 1]
  BY <1>3
<1> QED
  BY <1>5, <1>6 DEF n

(* The place of an element in a concatenation.                             *)
LEMMA Joined ==
  ASSUME NEW s \in Seq(Nat), NEW t \in Seq(Nat)
  PROVE  /\ s \o t \in Seq(Nat) /\ Len(s \o t) = Len(s) + Len(t)
         /\ \A k \in 1..Len(s) : (s \o t)[k] = s[k]
         /\ \A k \in 1..Len(t) : (s \o t)[Len(s) + k] = t[k]
<1>1. /\ s \o t \in Seq(Nat) /\ Len(s \o t) = Len(s) + Len(t)
      /\ \A k \in 1..Len(s) + Len(t) :
           (s \o t)[k] = IF k <= Len(s) THEN s[k] ELSE t[k - Len(s)]
  BY ConcatProperties
<1>2. Len(s) \in Nat /\ Len(t) \in Nat
  OBVIOUS
<1>3. ASSUME NEW k \in 1..Len(s) PROVE (s \o t)[k] = s[k]
  <2>1. k \in 1..Len(s) + Len(t) /\ k <= Len(s)
    BY <1>2
  <2> QED
    BY <1>1, <2>1
<1>4. ASSUME NEW k \in 1..Len(t) PROVE (s \o t)[Len(s) + k] = t[k]
  <2>1. /\ Len(s) + k \in 1..Len(s) + Len(t) /\ ~(Len(s) + k <= Len(s))
        /\ (Len(s) + k) - Len(s) = k
    BY <1>2
  <2> QED
    BY <1>1, <2>1
<1> QED
  BY <1>1, <1>3, <1>4

(* The body of the image has a word for every linked address from DataStart*)
(* to the end of the GOT, but none for bss.                                *)
LEMMA BodyWords ==
  ASSUME ConvertInv, image.written
  PROVE  /\ \A i \in 0..Size("data") - 1 :
              image.body[FlashLength + i + 1] = elf.word[FlashLength + i]
         /\ \A i \in GotOffset..RamLength - 1 :
              image.body[FlashLength + i - Size("bss") + 1] = elf.word[FlashLength + i]
<1>1. input \in DOMAIN Elfs /\ image.body = Body
  BY ImageFields
<1>2. \A s \in Section : elf.size[s] \in Nat
  BY <1>1, ElfFacts
<1>3. \A s \in Section :
        /\ Words(s) \in Seq(Nat) /\ Len(Words(s)) = elf.size[s]
        /\ \A k \in 1..elf.size[s] : Words(s)[k] = elf.word[elf.addr[s] + k - 1]
  BY <1>1, SectionWords
<1> DEFINE n == elf.size
           p1 == Words("text")
           p2 == p1 \o Words("init")
           p3 == p2 \o Words("plt")
           p4 == p3 \o Words("rodata")
           p5 == p4 \o Words("data")
           p6 == p5 \o Words("got")
           p7 == p6 \o Words("gotplt")
           p8 == p7 \o Words("extab")
           p9 == p8 \o Words("exidx")
           l3 == n["text"] + n["init"] + n["plt"]
           l5 == l3 + n["rodata"] + n["data"]
           l6 == l5 + n["got"]
           l8 == l6 + n["gotplt"] + n["extab"]
<1>4. /\ n["text"] \in Nat /\ n["init"] \in Nat /\ n["plt"] \in Nat /\ n["rodata"] \in Nat
      /\ n["data"] \in Nat /\ n["got"] \in Nat /\ n["gotplt"] \in Nat /\ n["extab"] \in Nat
      /\ n["exidx"] \in Nat
  BY <1>2 DEF Section
<1>5. /\ Words("text") \in Seq(Nat) /\ Len(Words("text")) = n["text"]
      /\ Words("init") \in Seq(Nat) /\ Len(Words("init")) = n["init"]
      /\ Words("plt") \in Seq(Nat) /\ Len(Words("plt")) = n["plt"]
      /\ Words("rodata") \in Seq(Nat) /\ Len(Words("rodata")) = n["rodata"]
      /\ Words("data") \in Seq(Nat) /\ Len(Words("data")) = n["data"]
      /\ Words("got") \in Seq(Nat) /\ Len(Words("got")) = n["got"]
      /\ Words("gotplt") \in Seq(Nat) /\ Len(Words("gotplt")) = n["gotplt"]
      /\ Words("extab") \in Seq(Nat) /\ Len(Words("extab")) = n["extab"]
      /\ Words("exidx") \in Seq(Nat) /\ Len(Words("exidx")) = n["exidx"]
  BY <1>3 DEF Section
<1>6. /\ \A k \in 1..n["rodata"] : Words("rodata")[k] = elf.word[elf.addr["rodata"] + k - 1]
      /\ \A k \in 1..n["data"] : Words("data")[k] = elf.word[elf.addr["data"] + k - 1]
      /\ \A k \in 1..n["got"] : Words("got")[k] = elf.word[elf.addr["got"] + k - 1]
  BY <1>3 DEF Section
<1>7. Body = p9
  BY DEF Body
<1> HIDE DEF n, p1, p2, p3, p4, p5, p6, p7, p8, p9
<1>8. p2 \in Seq(Nat) /\ Len(p2) = n["text"] + n["init"]
  <2>1. /\ Words("text") \in Seq(Nat) /\ Words("init") \in Seq(Nat)
        /\ Len(Words("text")) = n["text"] /\ Len(Words("init")) = n["init"]
    BY <1>5
  <2>2. p2 \in Seq(Nat) /\ Len(p2) = Len(Words("text")) + Len(Words("init"))
    BY <2>1, Joined DEF p1, p2
  <2> QED
    BY <2>1, <2>2
<1>9. p3 \in Seq(Nat) /\ Len(p3) = l3
  <2>1. Words("plt") \in Seq(Nat) /\ Len(Words("plt")) = n["plt"]
    BY <1>5
  <2>2. p3 \in Seq(Nat) /\ Len(p3) = Len(p2) + Len(Words("plt"))
    BY <1>8, <2>1, Joined DEF p3
  <2> QED
    BY <1>8, <2>1, <2>2
<1>10. l3 \in Nat /\ l3 + n["rodata"] \in Nat /\ l5 \in Nat /\ l6 \in Nat
       /\ l6 + n["gotplt"] \in Nat /\ l8 \in Nat
  BY <1>4
<1> HIDE DEF l3
<1>11. /\ p4 \in Seq(Nat) /\ Len(p4) = l3 + n["rodata"]
       /\ \A k \in 1..n["rodata"] : p4[l3 + k] = Words("rodata")[k]
  <2>1. Words("rodata") \in Seq(Nat) /\ Len(Words("rodata")) = n["rodata"]
    BY <1>5
  <2>2. /\ p4 \in Seq(Nat) /\ Len(p4) = Len(p3) + Len(Words("rodata"))
        /\ \A k \in 1..Len(p3) : p4[k] = p3[k]
        /\ \A k \in 1..Len(Words("rodata")) : p4[Len(p3) + k] = Words("rodata")[k]
    BY <1>9, <2>1, Joined DEF p4
  <2> QED
    BY <1>9, <2>1, <2>2
<1>12. /\ p5 \in Seq(Nat) /\ Len(p5) = l5
       /\ \A k \in 1..l3 + n["rodata"] : p5[k] = p4[k]
       /\ \A k \in 1..n["data"] : p5[l3 + n["rodata"] + k] = Words("data")[k]
  <2>1. Words("data") \in Seq(Nat) /\ Len(Words("data")) = n["data"]
    BY <1>5
  <2>2. /\ p5 \in Seq(Nat) /\ Len(p5) = Len(p4) + Len(Words("data"))
        /\ \A k \in 1..Len(p4) : p5[k] = p4[k]
        /\ \A k \in 1..Len(Words("data")) : p5[Len(p4) + k] = Words("data")[k]
    BY <1>11, <2>1, Joined DEF p5
  <2> QED
    BY <1>11, <2>1, <2>2 DEF l5
<1> HIDE DEF l5
<1>13. /\ p6 \in Seq(Nat) /\ Len(p6) = l6
       /\ \A k \in 1..l5 : p6[k] = p5[k]
       /\ \A k \in 1..n["got"] : p6[l5 + k] = Words("got")[k]
  <2>1. Words("got") \in Seq(Nat) /\ Len(Words("got")) = n["got"]
    BY <1>5
  <2>2. /\ p6 \in Seq(Nat) /\ Len(p6) = Len(p5) + Len(Words("got"))
        /\ \A k \in 1..Len(p5) : p6[k] = p5[k]
        /\ \A k \in 1..Len(Words("got")) : p6[Len(p5) + k] = Words("got")[k]
    BY <1>12, <2>1, Joined DEF p6
  <2> QED
    BY <1>12, <2>1, <2>2 DEF l6
<1> HIDE DEF l6
<1>14. /\ p7 \in Seq(Nat) /\ Len(p7) = l6 + n["gotplt"]
       /\ \A k \in 1..l6 : p7[k] = p6[k]
  <2>1. Words("gotplt") \in Seq(Nat) /\ Len(Words("gotplt")) = n["gotplt"]
    BY <1>5
  <2>2. /\ p7 \in Seq(Nat) /\ Len(p7) = Len(p6) + Len(Words("gotplt"))
        /\ \A k \in 1..Len(p6) : p7[k] = p6[k]
        /\ \A k \in 1..Len(Words("gotplt")) : p7[Len(p6) + k] = Words("gotplt")[k]
    BY <1>13, <2>1, Joined DEF p7
  <2> QED
    BY <1>13, <2>1, <2>2
<1>15. /\ p8 \in Seq(Nat) /\ Len(p8) = l8
       /\ \A k \in 1..l6 + n["gotplt"] : p8[k] = p7[k]
  <2>1. Words("extab") \in Seq(Nat) /\ Len(Words("extab")) = n["extab"]
    BY <1>5
  <2>2. /\ p8 \in Seq(Nat) /\ Len(p8) = Len(p7) + Len(Words("extab"))
        /\ \A k \in 1..Len(p7) : p8[k] = p7[k]
        /\ \A k \in 1..Len(Words("extab")) : p8[Len(p7) + k] = Words("extab")[k]
    BY <1>14, <2>1, Joined DEF p8
  <2> QED
    BY <1>14, <2>1, <2>2 DEF l8
<1>16. \A k \in 1..l8 : p9[k] = p8[k]
  <2>1. Words("exidx") \in Seq(Nat)
    BY <1>5
  <2> QED
    BY <1>15, <2>1, Joined DEF p9
<1>17. \A k \in 1..l6 : Body[k] = p6[k]
  <2>1. \A k \in 1..l6 : k \in 1..l6 + n["gotplt"] /\ k \in 1..l8
    BY <1>4, <1>10
  <2> QED
    BY <1>7, <1>14, <1>15, <1>16, <2>1
<1>18. /\ FlashLength = l3 /\ Size("data") = n["rodata"] + n["data"]
       /\ Size("bss") \in Nat /\ Size("got") \in Nat
       /\ GotOffset = Size("data") + Size("bss") /\ RamLength = GotOffset + Size("got")
       /\ elf.addr["data"] = FlashLength + n["rodata"]
       /\ "rodata" \in elf.has => elf.addr["rodata"] = FlashLength
       /\ "rodata" \notin elf.has => n["rodata"] = 0
       /\ elf.addr["got"] = FlashLength + GotOffset
       /\ Size("got") = n["got"]
  BY Places, Sizes DEF n, l3
<1>19. ASSUME NEW i \in 0..Size("data") - 1
       PROVE  image.body[FlashLength + i + 1] = elf.word[FlashLength + i]
  <2>1. l3 + (i + 1) \in 1..l5 /\ l3 + (i + 1) \in 1..l6
    BY <1>4, <1>10, <1>18 DEF l5, l6
  <2>2. Body[l3 + (i + 1)] = p5[l3 + (i + 1)]
    BY <1>13, <1>17, <2>1
  <2>3. CASE i < n["rodata"]
    <3>1. i + 1 \in 1..n["rodata"] /\ l3 + (i + 1) \in 1..l3 + n["rodata"]
      BY <1>4, <1>10, <2>3
    <3>2. p5[l3 + (i + 1)] = elf.word[elf.addr["rodata"] + (i + 1) - 1]
      BY <1>6, <1>11, <1>12, <3>1
    <3>3. "rodata" \in elf.has
      BY <1>18, <2>3
    <3>4. elf.addr["rodata"] + (i + 1) - 1 = FlashLength + i
      BY <1>10, <1>18, <3>3
    <3>5. FlashLength + i + 1 = l3 + (i + 1)
      BY <1>10, <1>18
    <3> QED
      BY <1>1, <2>2, <3>2, <3>4, <3>5
  <2>4. CASE ~(i < n["rodata"])
    <3> DEFINE k == i + 1 - n["rodata"]
    <3>1. k \in 1..n["data"] /\ l3 + n["rodata"] + k = l3 + (i + 1)
      BY <1>4, <1>10, <1>18, <2>4
    <3>2. p5[l3 + (i + 1)] = elf.word[elf.addr["data"] + k - 1]
      <4> HIDE DEF k
      <4> QED
        BY <1>6, <1>12, <3>1
    <3>3. elf.addr["data"] + k - 1 = FlashLength + i
      BY <1>4, <1>10, <1>18
    <3>4. FlashLength + i + 1 = l3 + (i + 1)
      BY <1>10, <1>18
    <3> QED
      BY <1>1, <2>2, <3>2, <3>3, <3>4
  <2> QED
    BY <2>3, <2>4
<1>20. ASSUME NEW i \in GotOffset..RamLength - 1
       PROVE  image.body[FlashLength + i - Size("bss") + 1] = elf.word[FlashLength + i]
  <2> DEFINE k == i - GotOffset + 1
  <2>1. /\ k \in 1..n["got"] /\ l5 + k \in 1..l6
        /\ l5 + k = FlashLength + i - Size("bss") + 1
        /\ elf.addr["got"] + k - 1 = FlashLength + i
    BY <1>4, <1>10, <1>18 DEF l5, l6
  <2> HIDE DEF k
  <2>2. Body[l5 + k] = elf.word[elf.addr["got"] + k - 1]
    BY <1>6, <1>13, <1>17, <2>1
  <2> QED
    BY <1>1, <2>1, <2>2
<1> QED
  BY <1>19, <1>20
-----------------------------------------------------------------------------
(* The steps of the loader.                                                *)

(* A step of the loader leaves the image and the file as they are.         *)
LEMMA LayoutStays ==
  ASSUME UNCHANGED vars
  PROVE  /\ image' = image /\ elf' = elf /\ DataTable' = DataTable
         /\ \A s : Size(s)' = Size(s)
         /\ FlashLength' = FlashLength /\ GotOffset' = GotOffset /\ RamLength' = RamLength
         /\ OwnGot' = OwnGot /\ Slots' = Slots
         /\ \A s : Offset(s)' = Offset(s) /\ SlotWord(s)' = SlotWord(s)
         /\ \A s : Bound(s)' <=> Bound(s)
         /\ \A a : RunTime(a)' = RunTime(a)
         /\ \A i : Fresh(i)' = Fresh(i)
<1>1. image' = image /\ elf' = elf /\ relocs' = relocs
  BY DEF vars, elf
<1>2. \A s : Size(s)' = Size(s)
  BY <1>1 DEF Size
<1>3. FlashLength' = FlashLength /\ GotOffset' = GotOffset
  BY <1>2 DEF FlashLength, GotOffset
<1>4. RamLength' = RamLength /\ OwnGot' = OwnGot /\ Slots' = Slots
  BY <1>2, <1>3 DEF RamLength, OwnGot, Slots
<1>5. \A s : Offset(s)' = Offset(s)
  BY <1>3 DEF Offset
<1>6. \A s : SlotWord(s)' = SlotWord(s)
  BY <1>1, <1>3, <1>5 DEF SlotWord
<1>7. \A s : Bound(s)' <=> Bound(s)
  BY <1>1 DEF Bound
<1>8. \A a : RunTime(a)' = RunTime(a)
  BY <1>3 DEF RunTime
<1>9. \A i : Fresh(i)' = Fresh(i)
  BY <1>1, <1>2, <1>3 DEF Fresh
<1>10. DataTable' = DataTable
  BY <1>1 DEF DataTable, FilterRelocations, OfType
<1> QED
  BY <1>1, <1>2, <1>3, <1>4, <1>5, <1>6, <1>7, <1>8, <1>9, <1>10

(* A slot has two words of the GOT for itself.                             *)
LEMMA SlotPlaces ==
  ASSUME ConvertInv, image.written
  PROVE  /\ \A s \in Nat : Offset(s) \in Nat /\ Offset(s) >= GotOffset
         /\ \A s \in Slots : /\ s \in Nat /\ Offset(s) \in GotOffset..RamLength - 1
                             /\ Offset(s) + 1 \in GotOffset..RamLength - 1
         /\ \A s, t \in Nat : s # t => Offset(s) # Offset(t)
         /\ \A s, t \in Nat : Offset(s) # Offset(t) + 1
<1>1. /\ GotOffset \in Nat /\ Size("got") \in Nat /\ RamLength = GotOffset + Size("got")
  BY Places
<1>2. \A s \in Nat : Offset(s) \in Nat /\ Offset(s) >= GotOffset
  BY <1>1 DEF Offset
<1>3. ASSUME NEW s \in Slots
      PROVE  /\ s \in Nat /\ Offset(s) \in GotOffset..RamLength - 1
             /\ Offset(s) + 1 \in GotOffset..RamLength - 1
  <2> DEFINE n == Size("got")
  <2>1. n \in Nat /\ s \in 0..(n \div 2) - 1
    BY <1>1 DEF Slots
  <2> HIDE DEF n
  <2>2. s \in Nat /\ 2 * s + 2 <= n
    BY <2>1
  <2> QED
    BY <1>1, <2>2 DEF Offset, n
<1>4. ASSUME NEW s \in Nat, NEW t \in Nat
      PROVE  (s # t => Offset(s) # Offset(t)) /\ Offset(s) # Offset(t) + 1
  <2>1. 2 * s # 2 * t + 1 /\ (s # t => 2 * s # 2 * t)
    OBVIOUS
  <2> QED
    BY <1>1, <2>1 DEF Offset
<1> QED
  BY <1>2, <1>3, <1>4

(* The memory as the image has it: the linker's words, and zeros for bss.  *)
LEMMA ProcessDataLoads ==
  ASSUME ConvertInv, LoadInv, ProcessData, UNCHANGED vars
  PROVE  LoadInv'
<1>1. image.written
  BY DEF ProcessData, ConvertInv, ImageOK, Image
<1>2. cursor' \in Nat \ {0}
  BY DEF ProcessData, LoadInv
<1>3. CASE step' = "panic"
  BY <1>2, <1>3 DEF LoadInv, Loading
<1>4. CASE ~(Size("init") > 0 \/ Size("gotplt") > 0)
  <2>1. /\ step' = "got"
        /\ ram' = [i \in 0..RamLength - 1 |->
             CASE i < Size("data") -> image.body[FlashLength + i + 1]
               [] i >= GotOffset -> image.body[FlashLength + i - Size("bss") + 1]
               [] OTHER -> 0]
    BY <1>4 DEF ProcessData
  <2>2. elf.size["init"] = 0
    <3>1. Size("init") = elf.size["init"] /\ elf.size["init"] \in Nat
      BY <1>1, Sizes, ImageFields, SizesAreNatural
    <3> QED
      BY <1>4, <3>1
  <2>3. /\ Size("data") \in Nat /\ GotOffset \in Nat /\ RamLength \in Nat
        /\ Size("bss") \in Nat /\ Size("got") \in Nat /\ GotOffset = Size("data") + Size("bss")
        /\ RamLength = GotOffset + Size("got")
    BY <1>1, Places
  <2>4. ASSUME NEW i \in 0..GotOffset - 1 PROVE ram'[i] = Fresh(i)
    <3>1. i \in 0..RamLength - 1 /\ ~(i >= GotOffset) /\ i < GotOffset
      BY <2>3
    <3>2. CASE i < Size("data")
      <4>1. ram'[i] = image.body[FlashLength + i + 1] /\ ~(Size("data") <= i)
        BY <2>1, <2>3, <3>1, <3>2
      <4>2. i \in 0..Size("data") - 1
        BY <2>3, <3>2
      <4> QED
        BY <1>1, <4>1, <4>2, BodyWords DEF Fresh
    <3>3. CASE ~(i < Size("data"))
      <4>1. ram'[i] = 0 /\ Size("data") <= i
        BY <2>1, <2>3, <3>1, <3>3
      <4> QED
        BY <3>1, <4>1 DEF Fresh
    <3> QED
      BY <3>2, <3>3
  <2>5. DataPart'
    BY <2>1, <2>4, LayoutStays DEF DataPart, Patched
  <2>6. ASSUME NEW s \in Slots PROVE ram'[Offset(s)] = SlotWord(s)
    <3> DEFINE i == Offset(s)
    <3>1. i \in GotOffset..RamLength - 1
      BY <1>1, SlotPlaces
    <3> HIDE DEF i
    <3>2. i \in 0..RamLength - 1 /\ ~(i < Size("data")) /\ i >= GotOffset
      BY <2>3, <3>1
    <3>3. ram'[i] = image.body[FlashLength + i - Size("bss") + 1]
      BY <2>1, <3>2
    <3> QED
      BY <1>1, <3>1, <3>3, BodyWords DEF SlotWord, i
  <2>7. GotPart'
    BY <2>1, <2>6, LayoutStays DEF GotPart
  <2>8. DOMAIN ram' = 0..RamLength - 1
    BY <2>1
  <2> QED
    BY <1>1, <1>2, <2>2, <2>5, <2>7, <2>8, LayoutStays DEF LoadInv
<1> QED
  BY <1>3, <1>4 DEF ProcessData

(* The addresses in the slots become those at run time.                    *)
LEMMA ResolveGotLoads ==
  ASSUME ConvertInv, LoadInv, ResolveGot, UNCHANGED vars
  PROVE  LoadInv'
<1> DEFINE resolved == {s \in Slots : s >= 3 /\ ram[Offset(s)] # 0}
<1>1. /\ step = "got" /\ cursor' = 1
      /\ image.written /\ elf.size["init"] = 0
      /\ DOMAIN ram = 0..RamLength - 1
      /\ DataPart /\ GotPart
  BY DEF ResolveGot, LoadInv, Loading
<1>2. CASE step' = "refused"
  BY <1>1, <1>2 DEF LoadInv, Loading
<1>3. CASE /\ step' = "slots"
           /\ ram' = [i \in DOMAIN ram |->
                IF \E s \in resolved : i = Offset(s) THEN RunTime(ram[i])
                ELSE IF \E s \in resolved : i = Offset(s) + 1 THEN OwnGot
                ELSE ram[i]]
  <2>1. /\ GotOffset \in Nat /\ RamLength \in Nat /\ Size("got") \in Nat
        /\ RamLength = GotOffset + Size("got")
    BY <1>1, Places
  <2>2. /\ \A s \in Slots : /\ s \in Nat /\ Offset(s) \in GotOffset..RamLength - 1
                            /\ Offset(s) + 1 \in GotOffset..RamLength - 1
        /\ \A s, t \in Nat : Offset(s) # Offset(t) + 1
    BY <1>1, SlotPlaces
  <2>3. ASSUME NEW i \in 0..GotOffset - 1 PROVE ram'[i] = Fresh(i)
    <3>1. i \in 0..RamLength - 1 /\ i < GotOffset
      BY <2>1
    <3>2. \A s \in resolved : i # Offset(s) /\ i # Offset(s) + 1
      BY <2>1, <2>2, <3>1
    <3>3. ram'[i] = ram[i]
      <4> HIDE DEF resolved
      <4> QED
        BY <1>1, <1>3, <3>1, <3>2
    <3> QED
      BY <1>1, <3>3 DEF DataPart, Patched
  <2>4. DataPart'
    BY <1>3, <2>3, LayoutStays DEF DataPart, Patched
  <2>5. ASSUME NEW s \in Slots, s >= 3, SlotWord(s) # 0
        PROVE  ram'[Offset(s)] = RunTime(SlotWord(s)) /\ ram'[Offset(s) + 1] = OwnGot
    <3>1. ram[Offset(s)] = SlotWord(s)
      BY <1>1 DEF GotPart
    <3>2. s \in resolved
      BY <2>5, <3>1
    <3>3. Offset(s) \in DOMAIN ram /\ Offset(s) + 1 \in DOMAIN ram
      BY <1>1, <2>1, <2>2
    <3>4. \A t \in resolved : Offset(s) + 1 # Offset(t)
      BY <2>2
    <3>5. ram'[Offset(s)] = RunTime(ram[Offset(s)])
      <4> HIDE DEF resolved
      <4> QED
        BY <1>3, <3>2, <3>3
    <3>6. ram'[Offset(s) + 1] = OwnGot
      <4> HIDE DEF resolved
      <4> QED
        BY <1>3, <3>2, <3>3, <3>4
    <3> QED
      BY <3>1, <3>5, <3>6
  <2>6. GotPart'
    BY <1>3, <2>5, LayoutStays DEF GotPart
  <2>7. DOMAIN ram' = 0..RamLength - 1
    BY <1>1, <1>3
  <2> QED
    BY <1>1, <2>4, <2>6, <2>7, LayoutStays DEF LoadInv
<1> QED
  BY <1>2, <1>3 DEF ResolveGot

(* A slot is written for the symbol or the section that is bound to it.    *)
LEMMA WriteSlotKeeps ==
  ASSUME ConvertInv, LoadInv, UNCHANGED vars, step \in {"slots", "locals"}, step' # "panic",
         NEW slot \in Nat, Bound(slot), NEW address, NEW got, WriteSlot(slot, address, got)
  PROVE  step' = step /\ DOMAIN ram' = DOMAIN ram /\ DataPart' /\ GotPart'
<1>1. /\ image.written /\ DOMAIN ram = 0..RamLength - 1 /\ DataPart /\ GotPart
  BY DEF LoadInv, Loading
<1>2. /\ GotOffset \in Nat /\ RamLength \in Nat /\ Size("got") \in Nat
      /\ RamLength = GotOffset + Size("got")
  BY <1>1, Places
<1>3. /\ \A s \in Nat : Offset(s) \in Nat /\ Offset(s) >= GotOffset
      /\ \A s \in Slots : /\ s \in Nat /\ Offset(s) \in GotOffset..RamLength - 1
                          /\ Offset(s) + 1 \in GotOffset..RamLength - 1
      /\ \A s, t \in Nat : s # t => Offset(s) # Offset(t)
      /\ \A s, t \in Nat : Offset(s) # Offset(t) + 1
  BY <1>1, SlotPlaces
<1>4. /\ step' = step /\ DOMAIN ram' = DOMAIN ram
      /\ \A i \in DOMAIN ram : i # Offset(slot) /\ i # Offset(slot) + 1 => ram'[i] = ram[i]
  BY DEF WriteSlot
<1>5. ASSUME NEW i \in 0..GotOffset - 1 PROVE ram'[i] = ram[i]
  <2>1. Offset(slot) \in Nat /\ Offset(slot) >= GotOffset
    BY <1>3
  <2>2. i \in DOMAIN ram /\ i # Offset(slot) /\ i # Offset(slot) + 1
    BY <1>1, <1>2, <2>1
  <2> QED
    BY <1>4, <2>2
<1>6. DataPart'
  BY <1>1, <1>4, <1>5, LayoutStays DEF DataPart, Patched
<1>7. ASSUME NEW s \in Slots, ~Bound(s)
      PROVE  ram'[Offset(s)] = ram[Offset(s)] /\ ram'[Offset(s) + 1] = ram[Offset(s) + 1]
  <2>1. s \in Nat /\ s # slot
    BY <1>3, <1>7
  <2>2. Offset(s) \in DOMAIN ram /\ Offset(s) + 1 \in DOMAIN ram
    <3>1. /\ Offset(s) \in GotOffset..RamLength - 1
          /\ Offset(s) + 1 \in GotOffset..RamLength - 1
      BY <1>3
    <3> QED
      BY <1>1, <1>2, <3>1
  <2>3. /\ Offset(s) # Offset(slot) /\ Offset(s) # Offset(slot) + 1
        /\ Offset(slot) # Offset(s) + 1
    BY <1>3, <2>1
  <2>4. Offset(s) + 1 # Offset(slot) + 1
    BY <1>3, <2>1, <2>3
  <2> QED
    BY <1>4, <2>2, <2>3, <2>4
<1>8. GotPart'
  BY <1>1, <1>4, <1>7, LayoutStays DEF GotPart
<1> QED
  BY <1>4, <1>6, <1>8

(* The slot of a symbol table relocation.                                  *)
LEMMA SlotIsNat ==
  ASSUME ConvertInv, image.written, NEW k \in 1..image.amounts.slots
  PROVE  image.relocations[k].first \div 2 \in Nat
<1> DEFINE e == SlotTable[k]
           first == image.relocations[k].first
<1>1. k \in DOMAIN SlotTable /\ k \in DOMAIN AllWords /\ AllWords[k] = SymbolTableWords(e)
  BY AllWordsFacts, ImageFields
<1>2. e \in ListEntry
  BY <1>1, TableFacts
<1>3. e.index \in Int
  BY <1>2 DEF ListEntry, Entry
<1>4. first = 2 * e.index + (IF e.exported THEN 1 ELSE 0) /\ first >= 0
  BY <1>1, ImageFields DEF SymbolTableWords
<1>5. first \in Nat
  BY <1>3, <1>4
<1> QED
  BY <1>5

(* The words of a local relocation whose section is known.                 *)
LEMMA LocalSlot ==
  ASSUME ConvertInv, image.written, NEW k \in 1..image.amounts.locals
  PROVE  LET first == image.relocations[image.amounts.slots + k].first
         IN  first \div 4 \in Nat /\ Bound(first \div 4)
<1> DEFINE e == LocalTable[k]
           place == image.amounts.slots + k
           first == image.relocations[place].first
<1>1. /\ Len(SlotTable) \in Nat /\ Len(LocalTable) \in Nat /\ Len(DataTable) \in Nat
      /\ image.amounts.slots = Len(SlotTable) /\ image.amounts.locals = Len(LocalTable)
      /\ DOMAIN LocalTable = 1..Len(LocalTable)
      /\ DOMAIN AllWords = 1..Len(SlotTable) + Len(LocalTable) + Len(DataTable)
      /\ \A j \in 1..Len(LocalTable) : AllWords[Len(SlotTable) + j] = LocalWords(LocalTable[j])
  BY AllWordsFacts, ImageFields
<1>2. /\ e \in ListEntry /\ image.relocations[place] = LocalWords(e)
  <2>1. k \in 1..Len(LocalTable) /\ LocalTable \in Seq(ListEntry)
    BY <1>1, TableFacts
  <2>2. e \in ListEntry
    BY <2>1
  <2> QED
    BY <1>1, <2>1, <2>2, ImageFields
<1>3. first = Encoded(e.index, RelocationSection(e))
  BY <1>2 DEF LocalWords
<1>4. e.index \in Int /\ RelocationSection(e) \in {0, 1, 2, -1}
  BY <1>2 DEF ListEntry, Entry, RelocationSection, CodeSection, DataSection, InitSection
<1>5. first \in Int
  BY <1>3, <1>4 DEF Encoded
<1>6. first >= 0
  <2>1. place \in DOMAIN AllWords
    BY <1>1
  <2> QED
    BY <2>1, ImageFields
<1>7. first \div 4 \in Nat
  BY <1>5, <1>6
<1>8. place \in image.amounts.slots + 1..image.amounts.slots + image.amounts.locals
  BY <1>1
<1>9. Bound(first \div 4)
  BY <1>8 DEF Bound
<1> QED
  BY <1>7, <1>9

LEMMA BindingKeeps ==
  ASSUME ConvertInv, LoadInv, BindSlot \/ BindLocal, UNCHANGED vars
  PROVE  LoadInv'
<1>1. /\ cursor \in Nat \ {0} /\ step \in {"slots", "locals"}
      /\ image.written /\ elf.size["init"] = 0 /\ DOMAIN ram = 0..RamLength - 1
  BY DEF BindSlot, BindLocal, LoadInv, Loading
<1>2. cursor' \in Nat \ {0}
  <2>1. cursor' \in {cursor, cursor + 1}
    BY DEF BindSlot, BindLocal, WriteSlot
  <2> QED
    BY <1>1, <2>1
<1>3. CASE step' \in {"refused", "panic"}
  BY <1>2, <1>3 DEF LoadInv, Loading
<1>4. ASSUME step' # "panic", NEW slot \in Nat, Bound(slot), NEW address, NEW got,
             WriteSlot(slot, address, got)
      PROVE  LoadInv'
  <2>1. step' = step /\ DOMAIN ram' = DOMAIN ram /\ DataPart' /\ GotPart'
    BY <1>1, <1>4, WriteSlotKeeps
  <2> QED
    BY <1>1, <1>2, <2>1, LayoutStays DEF LoadInv
<1>5. CASE BindSlot /\ step' \notin {"refused", "panic"}
  <2> DEFINE first == image.relocations[cursor].first
             slot == first \div 2
  <2>1. cursor \in 1..image.amounts.slots
    <3>1. cursor <= image.amounts.slots /\ image.amounts.slots \in Nat
      BY <1>1, <1>5, AllWordsFacts, ImageFields DEF BindSlot
    <3> QED
      BY <1>1, <3>1
  <2>2. slot \in Nat
    BY <1>1, <2>1, SlotIsNat
  <2>3. Bound(slot)
    BY <2>1 DEF Bound
  <2>4. \E address, got : WriteSlot(slot, address, got)
    BY <1>1, <1>5 DEF BindSlot
  <2> HIDE DEF slot
  <2> QED
    BY <1>4, <1>5, <2>2, <2>3, <2>4
<1>6. CASE BindLocal /\ step' \notin {"refused", "panic"}
  <2> DEFINE first == image.relocations[image.amounts.slots + cursor].first
             slot == first \div 4
  <2>1. cursor \in 1..image.amounts.locals
    <3>1. cursor <= image.amounts.locals /\ image.amounts.locals \in Nat
      BY <1>1, <1>6, AllWordsFacts, ImageFields DEF BindLocal
    <3> QED
      BY <1>1, <3>1
  <2>2. slot \in Nat /\ Bound(slot)
    BY <1>1, <2>1, LocalSlot
  <2>3. \E address, got : WriteSlot(slot, address, got)
    BY <1>1, <1>6 DEF BindLocal
  <2> HIDE DEF slot
  <2> QED
    BY <1>4, <1>6, <2>2, <2>3
<1> QED
  BY <1>3, <1>5, <1>6

(* The target of a data relocation is, at run time, where the linked       *)
(* address leads.                                                          *)
LEMMA LeadsRunTime ==
  ASSUME ConvertInv, image.written, NEW w \in Nat, NEW x, LeadsTo(x, w)
  PROVE  BaseAddress(x % 4) + x \div 4 = RunTime(w)
<1>1. FlashLength = DataStart /\ FlashLength \in Nat
  BY Places
<1>2. FlashBase \in Nat /\ RamBase \in Nat
  BY MemoryAssumption
<1>3. CASE w < DataStart /\ x % 4 = CodeSection /\ x \div 4 = w
  <2>1. BaseAddress(x % 4) = FlashBase
    BY <1>3 DEF BaseAddress, CodeSection, InitSection
  <2>2. w < FlashLength
    BY <1>1, <1>3
  <2>3. RunTime(w) = FlashBase + w
    BY <2>2 DEF RunTime
  <2> QED
    BY <1>3, <2>1, <2>3
<1>4. CASE w >= DataStart /\ x % 4 = DataSection /\ x \div 4 = w - DataStart
  <2>1. BaseAddress(x % 4) = RamBase
    BY <1>4 DEF BaseAddress, DataSection, CodeSection, InitSection
  <2>2. ~(w < FlashLength)
    BY <1>1, <1>4
  <2> QED
    BY <1>1, <1>2, <1>4, <2>1, <2>2 DEF RunTime
<1> QED
  BY <1>3, <1>4 DEF LeadsTo

(* An entry of the table of data relocations: the linker's relocation it   *)
(* stands for, and the place that is: in the data or in the GOT, and there *)
(* not the second word of a slot.                                          *)
LEMMA DataEntry ==
  ASSUME ConvertInv, image.written, elf.size["init"] = 0, NEW k \in DOMAIN DataTable
  PROVE  LET e == DataTable[k]
             w == elf.word[FlashLength + e.index]
         IN  /\ image.relocations[image.amounts.slots + image.amounts.locals + k]
                  = DataWords(e)
             /\ e.index \in Nat /\ Fixed(FlashLength + e.index)
             /\ w \in Nat /\ LeadsTo(e.offset, w)
             /\ e.index < Size("data") \/ e.index >= GotOffset
             /\ \A s \in Slots : e.index # Offset(s) + 1
<1> DEFINE e == DataTable[k]
           place == image.amounts.slots + image.amounts.locals + k
<1>1. /\ place \in DOMAIN AllWords /\ AllWords[place] = DataWords(e)
  <2> DEFINE a == Len(SlotTable)
             b == Len(LocalTable)
             c == Len(DataTable)
  <2>1. /\ a \in Nat /\ b \in Nat /\ c \in Nat
        /\ DOMAIN DataTable = 1..c /\ DOMAIN AllWords = 1..a + b + c
        /\ \A j \in 1..c : AllWords[a + b + j] = DataWords(DataTable[j])
    BY AllWordsFacts
  <2>2. place = a + b + k
    BY ImageFields
  <2> HIDE DEF a, b, c, place
  <2> QED
    BY <2>1, <2>2
<1>2. PICK j \in DOMAIN relocs.list : relocs.list[j].type = "data" /\ e = relocs.list[j]
  BY TableFacts
<1>3. e \in ListEntry /\ e.type = "data" /\ EntryLeads(e)
  BY <1>2 DEF ConvertInv, CollectedOK, DataEntriesLead
<1>4. image.relocations[place] = DataWords(e) /\ e.index \in Nat
  <2>1. e.index \in Int
    BY <1>3 DEF ListEntry, Entry
  <2>2. AllWords[place].first = e.index /\ AllWords[place].first >= 0
    BY <1>1, ImageFields DEF DataWords
  <2> QED
    BY <1>1, <2>1, <2>2, ImageFields
<1>5. PICK i \in DOMAIN elf.relocations :
        /\ Absolute(elf.relocations[i]) \/ Relative(elf.relocations[i])
        /\ elf.relocations[i].offset = DataStart + e.index
        /\ LeadsTo(e.offset, elf.word[elf.relocations[i].offset])
  <2>1. e.index >= 0
    BY <1>4
  <2> QED
    BY <1>3, <2>1 DEF EntryLeads
<1> DEFINE r == elf.relocations[i]
<1>6. /\ FlashLength = DataStart /\ FlashLength \in Nat /\ Size("data") = DataLength
      /\ Size("data") \in Nat /\ Size("bss") \in Nat /\ Size("got") \in Nat
      /\ GotOffset \in Nat /\ RamLength \in Nat
      /\ GotOffset = Size("data") + Size("bss") /\ RamLength = GotOffset + Size("got")
      /\ elf.addr["got"] = FlashLength + GotOffset
      /\ Size("got") = elf.size["got"] /\ Size("bss") = elf.size["bss"]
  BY Places, Sizes
<1>7. /\ Absolute(r) => r.offset >= DataStart /\ r.offset < DataStart + DataLength
      /\ Relative(r) => RelativeReadable(r.offset - DataStart)
  <2>1. PastDatas(i)
    BY ImageFields DEF PastDatas, AfterDatas
  <2> QED
    BY <2>1 DEF ConvertInv, LoopsOK, DataDone
<1>8. r.offset - DataStart = e.index /\ r.offset = FlashLength + e.index
  BY <1>4, <1>5, <1>6
<1>9. elf.word[FlashLength + e.index] \in Nat
  <2>1. CASE Absolute(r)
    <3>1. e.index < DataLength
      BY <1>4, <1>6, <1>7, <1>8, <2>1
    <3> QED
      BY <1>4, <1>6, <3>1, ImageFields, DataIsWhereItStarts
  <2>2. CASE Relative(r)
    <3>1. RelativeReadable(e.index) /\ e.index \in Int /\ e.index >= 0
      BY <1>4, <1>7, <1>8, <2>2
    <3> QED
      BY <1>6, <3>1, ImageFields, RelativeWordFacts
  <2> QED
    BY <1>5, <2>1, <2>2
<1>10. Fixed(FlashLength + e.index)
  BY <1>5, <1>8 DEF Fixed
<1>11. ASSUME NEW s \in Slots, e.index = Offset(s) + 1 PROVE FALSE
  <2>1. /\ s \in Nat /\ Offset(s) \in GotOffset..RamLength - 1
        /\ Offset(s) + 1 \in GotOffset..RamLength - 1
    BY SlotPlaces
  <2>2. e.index = GotOffset + 2 * s + 1
    BY <1>6, <1>11, <2>1 DEF Offset
  <2>3. CASE Absolute(r)
    <3>1. e.index < DataLength
      BY <1>4, <1>6, <1>7, <1>8, <2>3
    <3> QED
      BY <1>6, <2>1, <2>2, <3>1
  <2>4. CASE Relative(r)
    <3> DEFINE distance == r.offset - elf.addr["got"]
    <3>1. distance = 2 * s + 1
      BY <1>6, <1>8, <2>1, <2>2
    <3>2. distance \in 0..elf.size["got"] - 1
      <4>1. 2 * s + 1 <= elf.size["got"] - 1 /\ elf.size["got"] \in Nat
        BY <1>4, <1>6, <1>11, <2>1, <2>2
      <4> HIDE DEF distance
      <4> QED
        BY <2>1, <3>1, <4>1
    <3>3. distance % 2 = 0
      BY <2>4, <3>2, ImageFields, SlotAssumption DEF Relative, elf
    <3> HIDE DEF distance
    <3> QED
      BY <2>1, <3>1, <3>3
  <2> QED
    BY <1>5, <2>3, <2>4
<1>12. e.index < Size("data") \/ e.index >= GotOffset
  BY <1>4, <1>5, <1>6, <1>7, <1>8 DEF RelativeReadable
<1> QED
  BY <1>4, <1>5, <1>8, <1>9, <1>10, <1>11, <1>12

(* One data relocation more: the word it is about leads, at run time, to   *)
(* where the linked address does, and no other word is touched.            *)
LEMMA PatchDataKeeps ==
  ASSUME ConvertInv, LoadInv, PatchData, UNCHANGED vars
  PROVE  LoadInv'
<1> DEFINE e == DataTable[cursor]
           at == e.index
           w == elf.word[FlashLength + at]
<1>1. /\ cursor \in Nat \ {0} /\ step = "datas"
      /\ image.written /\ elf.size["init"] = 0 /\ DOMAIN ram = 0..RamLength - 1
      /\ DataPart /\ GotPart
  BY DEF PatchData, LoadInv, Loading
<1>2. cursor' \in Nat \ {0}
  <2>1. cursor' \in {cursor, cursor + 1}
    BY DEF PatchData
  <2> QED
    BY <1>1, <2>1
<1>3. CASE step' \in {"refused", "panic"}
  BY <1>2, <1>3 DEF LoadInv, Loading
<1>4. CASE step' \notin {"refused", "panic"}
  <2>1. cursor \in DOMAIN DataTable
    <3>1. /\ cursor <= image.amounts.datas /\ image.amounts.datas = Len(DataTable)
          /\ Len(DataTable) \in Nat /\ DOMAIN DataTable = 1..Len(DataTable)
      BY <1>1, AllWordsFacts, ImageFields DEF PatchData
    <3> QED
      BY <1>1, <3>1
  <2>2. /\ image.relocations[image.amounts.slots + image.amounts.locals + cursor]
             = DataWords(e)
        /\ at \in Nat /\ w \in Nat /\ LeadsTo(e.offset, w)
        /\ at < Size("data") \/ at >= GotOffset
        /\ \A s \in Slots : at # Offset(s) + 1
    BY <1>1, <2>1, DataEntry
  <2>3. BaseAddress(e.offset % 4) + e.offset \div 4 = RunTime(w)
    BY <1>1, <2>2, LeadsRunTime
  <2>4. /\ step' = step /\ cursor' = cursor + 1
        /\ \/ ram' = [ram EXCEPT ![at] = RunTime(w)]
           \/ at = 0 /\ Size("data") = 0 /\ ram' = ram
    <3>1. /\ DataWords(e).first = at /\ DataWords(e).second = e.offset
      BY DEF DataWords
    <3> HIDE DEF e, w
    <3> QED
      BY <1>4, <2>2, <2>3, <3>1 DEF PatchData
  <2>5. /\ GotOffset \in Nat /\ RamLength \in Nat /\ Size("got") \in Nat
        /\ RamLength = GotOffset + Size("got")
    BY <1>1, Places
  <2>6. /\ DOMAIN ram' = 0..RamLength - 1
        /\ \A i \in DOMAIN ram : i # at => ram'[i] = ram[i]
        /\ at \in DOMAIN ram /\ ~(at = 0 /\ Size("data") = 0) => ram'[at] = RunTime(w)
    BY <1>1, <2>4
  <2>7. ASSUME NEW i
        PROVE  Patched(i)' <=> Patched(i) \/ at = i
    <3>1. \A j \in DOMAIN DataTable : j < cursor' <=> j < cursor \/ j = cursor
      <4>1. DOMAIN DataTable \subseteq Nat
        BY <1>1, AllWordsFacts
      <4> QED
        BY <1>1, <2>4, <4>1
    <3>2. Patched(i) <=> \E j \in DOMAIN DataTable : DataTable[j].index = i /\ j < cursor
      BY <1>1 DEF Patched
    <3>3. Patched(i)' <=> \E j \in DOMAIN DataTable : DataTable[j].index = i /\ j < cursor'
      BY <1>1, <2>4, LayoutStays DEF Patched
    <3> QED
      BY <2>1, <3>1, <3>2, <3>3
  <2>8. DataPart'
    <3>1. ASSUME NEW i \in 0..GotOffset - 1
          PROVE  ram'[i] = IF Patched(i)' THEN RunTime(elf.word[FlashLength + i]) ELSE Fresh(i)
      <4>1. i \in DOMAIN ram
        BY <1>1, <2>5
      <4>2. ram[i] = IF Patched(i) THEN RunTime(elf.word[FlashLength + i]) ELSE Fresh(i)
        BY <1>1 DEF DataPart
      <4>3. CASE i = at
        <5>1. ~(at = 0 /\ Size("data") = 0)
          BY <2>2, <2>5, <4>3
        <5> QED
          BY <2>6, <2>7, <4>1, <4>3, <5>1
      <4>4. CASE i # at
        BY <2>6, <2>7, <4>1, <4>2, <4>4
      <4> QED
        BY <4>3, <4>4
    <3> QED
      BY <3>1, LayoutStays DEF DataPart
  <2>9. ASSUME NEW s \in Slots, s >= 3, SlotWord(s) # 0, ~Bound(s)
        PROVE  ram'[Offset(s)] = RunTime(SlotWord(s)) /\ ram'[Offset(s) + 1] = OwnGot
    <3>1. ram[Offset(s)] = RunTime(SlotWord(s)) /\ ram[Offset(s) + 1] = OwnGot
      BY <1>1, <2>9 DEF GotPart
    <3>2. Offset(s) \in DOMAIN ram /\ Offset(s) + 1 \in DOMAIN ram
      <4>1. /\ Offset(s) \in GotOffset..RamLength - 1
            /\ Offset(s) + 1 \in GotOffset..RamLength - 1
        BY <1>1, SlotPlaces
      <4> QED
        BY <1>1, <2>5, <4>1
    <3>3. ram'[Offset(s) + 1] = OwnGot
      BY <2>2, <2>6, <3>1, <3>2
    <3>4. ram'[Offset(s)] = RunTime(SlotWord(s))
      <4>1. CASE at = Offset(s)
        <5>1. at # 0
          BY <2>5, <2>9, <4>1, SlotPlaces, <1>1 DEF Offset
        <5> QED
          BY <2>6, <3>2, <4>1, <5>1 DEF SlotWord
      <4>2. CASE at # Offset(s)
        BY <2>6, <3>1, <3>2, <4>2
      <4> QED
        BY <4>1, <4>2
    <3> QED
      BY <3>3, <3>4
  <2>10. GotPart'
    BY <1>1, <2>4, <2>9, LayoutStays DEF GotPart
  <2> QED
    BY <1>1, <1>2, <2>6, <2>8, <2>10, LayoutStays DEF LoadInv
<1> QED
  BY <1>3, <1>4

(* Between the loops; behind the last one every entry has been handled.    *)
LEMMA NextTableKeeps ==
  ASSUME ConvertInv, LoadInv, NextTable, UNCHANGED vars
  PROVE  LoadInv'
<1>1. /\ step \in {"slots", "locals", "datas"} /\ cursor \in Nat \ {0}
      /\ image.written /\ elf.size["init"] = 0 /\ DOMAIN ram = 0..RamLength - 1
      /\ DataPart /\ GotPart
  BY DEF NextTable, LoadInv, Loading
<1>2. cursor' = 1 /\ ram' = ram /\ step' \in {"locals", "datas", "loaded"}
  BY DEF NextTable
<1>3. DOMAIN DataTable = 1..Len(DataTable) /\ Len(DataTable) \in Nat
      /\ image.amounts.datas = Len(DataTable)
  BY <1>1, AllWordsFacts, ImageFields
<1>4. ASSUME NEW i PROVE Patched(i)' <=> Patched(i)
  <2>1. CASE step' # "loaded"
    <3>1. step \in {"slots", "locals"}
      BY <2>1 DEF NextTable
    <3>2. \A j \in DOMAIN DataTable : ~(j < 1)
      BY <1>3
    <3> QED
      BY <1>2, <2>1, <3>1, <3>2, LayoutStays DEF Patched
  <2>2. CASE step' = "loaded"
    <3>1. step = "datas" /\ cursor > Len(DataTable)
      BY <1>3, <2>2 DEF NextTable
    <3>2. \A j \in DOMAIN DataTable : j < cursor
      BY <1>1, <1>3, <3>1
    <3> QED
      BY <2>2, <3>1, <3>2, LayoutStays DEF Patched
  <2> QED
    BY <2>1, <2>2
<1>5. DataPart'
  BY <1>1, <1>2, <1>4, LayoutStays DEF DataPart
<1>6. GotPart'
  BY <1>1, <1>2, LayoutStays DEF GotPart
<1>7. cursor' \in Nat \ {0}
  BY <1>2
<1> QED
  BY <1>1, <1>2, <1>5, <1>6, <1>7, LayoutStays DEF LoadInv

(* The file is converted before it is loaded.                              *)
LEMMA LoadStepsKeep ==
  ASSUME ConvertInv, LoadInv, [LoadNext]_<<vars, loader>>
  PROVE  LoadInv'
<1>1. CASE Convert /\ UNCHANGED loader
  <2>1. step' = step /\ cursor' = cursor
    BY <1>1 DEF loader
  <2>2. phase # "written"
    BY <1>1
    DEF Convert, FetchSections, ProcessSymbols, ProcessRelocation, EndRelocations,
        ProcessDataRelocation, EndDataRelocations, BuildSymbolTables,
        ResolveDependantLibraries, BuildImage
  <2>3. ~Loading
    <3>1. ~image.written
      BY <2>2 DEF ConvertInv, ImageOK, NoImage
    <3> QED
      BY <3>1 DEF LoadInv
  <2> QED
    BY <2>1, <2>3 DEF LoadInv, Loading
<1>2. CASE Load /\ UNCHANGED vars
  BY <1>2, ProcessDataLoads, ResolveGotLoads, BindingKeeps, PatchDataKeeps, NextTableKeeps
  DEF Load
<1>3. CASE UNCHANGED <<vars, loader>>
  <2>1. UNCHANGED vars /\ step' = step /\ cursor' = cursor /\ ram' = ram
    BY <1>3 DEF loader
  <2>2. DataPart => DataPart'
    BY <2>1, LayoutStays DEF DataPart, Patched
  <2>3. GotPart => GotPart'
    BY <2>1, LayoutStays DEF GotPart
  <2> QED
    BY <2>1, <2>2, <2>3, LayoutStays DEF LoadInv, Loading
<1> QED
  BY <1>1, <1>2, <1>3 DEF LoadNext

(* A loaded image has been converted before: what ConvertSpec promises     *)
(* holds here too.                                                         *)
LEMMA LoadingConverts == LoadSpec => ConvertSpec
<1>1. LoadStart => Start
  BY DEF LoadStart
<1>2. [LoadNext]_<<vars, loader>> => [Convert]_vars
  BY DEF LoadNext
<1> QED
  BY <1>1, <1>2, PTL DEF LoadSpec, ConvertSpec

LEMMA LoaderInvariant == LoadSpec => [](ConvertInv /\ LoadInv)
<1>1. LoadStart => LoadInv
  BY DEF LoadStart, LoadInv, Loading
<1>2. ConvertInv /\ LoadInv /\ [LoadNext]_<<vars, loader>> => LoadInv'
  BY LoadStepsKeep
<1>3. LoadSpec => []ConvertInv
  BY LoadingConverts, ConvertInvariant, PTL
<1> QED
  BY <1>1, <1>2, <1>3, PTL DEF LoadSpec
-----------------------------------------------------------------------------
(* What a module that has been loaded can rely on.                         *)
LEMMA DataIsAsLinked ==
  ASSUME ConvertInv, LoadInv
  PROVE  DataAsLinked
<1> SUFFICES ASSUME step = "loaded", NEW s \in {"rodata", "data", "bss"},
                    NEW a \in elf.addr[s]..elf.addr[s] + elf.size[s] - 1
             PROVE  ram[a - FlashLength]
                      = IF Fixed(a) THEN RunTime(elf.word[a])
                        ELSE IF s = "bss" THEN 0 ELSE elf.word[a]
  BY DEF DataAsLinked
<1> DEFINE i == a - FlashLength
<1>1. image.written /\ elf.size["init"] = 0 /\ DataPart
  BY DEF LoadInv, Loading
<1>2. /\ Size("data") \in Nat /\ Size("bss") \in Nat /\ GotOffset = Size("data") + Size("bss")
      /\ FlashLength \in Nat /\ FlashLength = DataStart
      /\ Size("data") = elf.size["rodata"] + elf.size["data"]
      /\ elf.addr["data"] = FlashLength + elf.size["rodata"]
      /\ "rodata" \in elf.has => elf.addr["rodata"] = FlashLength
      /\ "rodata" \notin elf.has => elf.size["rodata"] = 0
      /\ elf.addr["bss"] = FlashLength + Size("data")
      /\ Size("bss") = elf.size["bss"]
  BY <1>1, Places, Sizes
<1>3. elf.size["rodata"] \in Nat /\ elf.size["data"] \in Nat /\ elf.addr["rodata"] \in Nat
  BY <1>1, ImageFields, SizesAreNatural
<1>4. /\ i \in 0..GotOffset - 1 /\ FlashLength + i = a
      /\ s = "bss" <=> Size("data") <= i
  <2>1. CASE s = "rodata"
    <3>1. "rodata" \in elf.has
      <4> SUFFICES ASSUME "rodata" \notin elf.has PROVE FALSE
        OBVIOUS
      <4>1. elf.size["rodata"] = 0
        BY <1>2
      <4> QED
        BY <1>3, <2>1, <4>1
    <3> QED
      BY <1>2, <1>3, <2>1, <3>1
  <2>2. CASE s = "data"
    BY <1>2, <1>3, <2>2
  <2>3. CASE s = "bss"
    BY <1>2, <1>3, <2>3
  <2> QED
    BY <2>1, <2>2, <2>3
<1>5. Patched(i) <=> Fixed(a)
  <2>1. Patched(i) <=> \E j \in DOMAIN DataTable : DataTable[j].index = i
    BY DEF Patched
  <2>2. ASSUME NEW j \in DOMAIN DataTable, DataTable[j].index = i PROVE Fixed(a)
    BY <1>1, <1>4, <2>2, DataEntry
  <2>3. ASSUME Fixed(a) PROVE \E j \in DOMAIN DataTable : DataTable[j].index = i
    <3>1. PICK k \in DOMAIN elf.relocations :
            /\ elf.relocations[k].offset = a
            /\ Absolute(elf.relocations[k]) \/ Relative(elf.relocations[k])
      BY <2>3 DEF Fixed
    <3>2. PastDatas(k)
      BY <1>1, ImageFields DEF PastDatas, AfterDatas
    <3>3. PICK j \in DOMAIN relocs.list :
            relocs.list[j].type = "data" /\ relocs.list[j].index = a - DataStart
      BY <1>1, <3>1, <3>2 DEF ConvertInv, LoopsOK, DataDone
    <3>4. PICK m \in DOMAIN DataTable : DataTable[m] = relocs.list[j]
      BY <3>3, TableFacts
    <3> QED
      BY <1>2, <3>3, <3>4
  <2> QED
    BY <2>1, <2>2, <2>3
<1>6. ram[i] = IF Patched(i) THEN RunTime(elf.word[FlashLength + i]) ELSE Fresh(i)
  BY <1>1, <1>4 DEF DataPart
<1>7. Fresh(i) = IF s = "bss" THEN 0 ELSE elf.word[a]
  <2>1. i < GotOffset
    BY <1>2, <1>4
  <2> QED
    BY <1>4, <2>1 DEF Fresh
<1> HIDE DEF i
<1>8. ram[i] = IF Fixed(a) THEN RunTime(elf.word[a])
               ELSE IF s = "bss" THEN 0 ELSE elf.word[a]
  BY <1>4, <1>5, <1>6, <1>7
<1> QED
  BY <1>8 DEF i

LEMMA GotIsAsLinked ==
  ASSUME ConvertInv, LoadInv
  PROVE  GotAsLinked
<1> SUFFICES ASSUME step = "loaded", NEW s \in Slots, s >= 3,
                    elf.word[elf.addr["got"] + 2 * s] # 0, ~Bound(s)
             PROVE  /\ ram[Offset(s)] = RunTime(elf.word[elf.addr["got"] + 2 * s])
                    /\ ram[Offset(s) + 1] = OwnGot
  BY DEF GotAsLinked
<1>1. image.written /\ GotPart
  BY DEF LoadInv, Loading
<1>2. SlotWord(s) = elf.word[elf.addr["got"] + 2 * s]
  <2>1. /\ elf.addr["got"] = FlashLength + GotOffset
        /\ FlashLength \in Nat /\ GotOffset \in Nat
    BY <1>1, Places
  <2>2. s \in Nat
    BY <1>1, SlotPlaces
  <2>3. FlashLength + Offset(s) = elf.addr["got"] + 2 * s
    BY <2>1, <2>2 DEF Offset
  <2> QED
    BY <2>3 DEF SlotWord
<1> QED
  BY <1>1, <1>2 DEF GotPart

LEMMA ExportsAreReachable ==
  ASSUME ConvertInv
  PROVE  ExportsReachable
<1> SUFFICES ASSUME image.written, NEW i \in DOMAIN exported,
                    OnItsSide(exported[i]), Findable(exported[i]),
                    Named(image.exported, exported[i].name) = {i}
             PROVE  /\ Found(exported[i].name)
                    /\ FindSymbol(exported[i].name)
                         = [address |-> RunTime(exported[i].value), got |-> OwnGot]
  BY DEF ExportsReachable
<1> DEFINE x == exported[i]
           word == image.exported[i].word
<1>1. exported \in Seq(KnownSymbol)
  BY DEF ConvertInv, SymbolsOK
<1>2. word = Encoded(x.value - SymbolBase(SymbolSection(x)), SymbolSection(x))
  BY <1>1, ImageFields, BinaryTableFacts
<1>3. x.value \in Nat
  <2>1. x \in KnownSymbol
    BY <1>1
  <2> QED
    BY <2>1 DEF KnownSymbol
<1>4. /\ FlashLength \in Nat
      /\ FlashLength = elf.size["text"] + elf.size["init"] + elf.size["plt"]
  BY Places
<1>5. FlashBase \in Nat /\ RamBase \in Nat
  BY MemoryAssumption
<1>6. OnItsSide(x) /\ Findable(x) /\ Named(image.exported, x.name) = {i}
  OBVIOUS
<1>7. ASSUME KnownBase(word % 4), BaseAddress(word % 4) + word \div 4 = RunTime(x.value)
      PROVE  /\ Found(x.name)
             /\ FindSymbol(x.name) = [address |-> RunTime(x.value), got |-> OwnGot]
  <2>1. Own(x.name) = {i}
    BY <1>6, <1>7 DEF Own, Findable
  <2> HIDE DEF x
  <2>2. (CHOOSE j \in Own(x.name) : TRUE) = i
    BY <2>1
  <2> QED
    BY <1>7, <2>1, <2>2 DEF Found, FindSymbol
<1> SUFFICES KnownBase(word % 4) /\ BaseAddress(word % 4) + word \div 4 = RunTime(x.value)
  BY <1>7
<1> HIDE DEF x, word
<1>8. CASE x.section \in {"text", "plt"}
  <2>1. SymbolSection(x) = 0 /\ SymbolBase(0) = 0
    BY <1>8 DEF SymbolSection, SymbolBase, CodeSection, DataSection, InitSection
  <2>2. word = Encoded(x.value, 0)
    BY <1>2, <1>3, <2>1
  <2>3. word % 4 = 0 /\ word \div 4 = x.value
    BY <1>3, <2>2 DEF Encoded
  <2>4. x.value < FlashLength
    BY <1>6, <1>8 DEF OnItsSide
  <2>5. KnownBase(0) /\ BaseAddress(0) = FlashBase /\ RunTime(x.value) = FlashBase + x.value
    BY <2>4 DEF KnownBase, BaseAddress, RunTime, CodeSection, InitSection
  <2> QED
    BY <2>3, <2>5
<1>9. CASE x.section \in {"data", "bss"} /\ x.value >= FlashLength
  <2>1. SymbolSection(x) = 1 /\ SymbolBase(1) = FlashLength
    BY <1>4, <1>9 DEF SymbolSection, SymbolBase, CodeSection, DataSection, InitSection
  <2>2. word = Encoded(x.value - FlashLength, 1) /\ x.value - FlashLength \in Int
    BY <1>2, <1>3, <1>4, <2>1
  <2>3. word % 4 = 1 /\ word \div 4 = x.value - FlashLength
    BY <2>2, Decoding
  <2>4. KnownBase(1) /\ BaseAddress(1) = RamBase
    BY <1>6, <1>9 DEF Findable, KnownBase, BaseAddress, CodeSection, DataSection, InitSection
  <2>5. RunTime(x.value) = RamBase + x.value - FlashLength
    BY <1>3, <1>4, <1>9 DEF RunTime
  <2> QED
    BY <1>3, <1>4, <1>5, <2>3, <2>4, <2>5
<1> QED
  BY <1>6, <1>8, <1>9 DEF OnItsSide

(* DataAsLinked for every set of linked files and any two places of the    *)
(* parts of a module in memory.                                            *)
THEOREM DataAlwaysAsLinked == LoadSpec => []DataAsLinked
<1>1. ConvertInv /\ LoadInv => DataAsLinked
  BY DataIsAsLinked
<1> QED
  BY <1>1, LoaderInvariant, PTL

(* GotAsLinked in the same generality.                                     *)
THEOREM GotAlwaysAsLinked == LoadSpec => []GotAsLinked
<1>1. ConvertInv /\ LoadInv => GotAsLinked
  BY GotIsAsLinked
<1> QED
  BY <1>1, LoaderInvariant, PTL

(* ExportsReachable in the same generality.                                *)
THEOREM ExportsAlwaysReachable == LoadSpec => []ExportsReachable
<1>1. ConvertInv => ExportsReachable
  BY ExportsAreReachable
<1> QED
  BY <1>1, LoaderInvariant, PTL
=============================================================================
