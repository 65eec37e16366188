----------------------------- MODULE YaffLoader -----------------------------
(***************************************************************************)
(* The dynamic loader (loader.zig, module.zig) run on the image mkimage.py *)
(* wrote: text, initializers and plt stay where the image lies in flash;   *)
(* data, bss and GOT become one piece of memory of the process, whose      *)
(* words the relocations fix.                                              *)
(*                                                                         *)
(* The fields of the header are taken by name: the two sides of the        *)
(* repository disagree on its layout (80 bytes here, 72 there), and the    *)
(* lookup tables the loader expects are taken to be the identity.  What    *)
(* the two words of a relocation mean is decoded as the loader does it.    *)
(***************************************************************************)
EXTENDS MkImage

CONSTANTS
  FlashBase,    \* where the text of the image lies
  RamBase,      \* the memory the module gets
  ThunkBase,    \* the memory of its thunks
  Provided      \* what the children export: name -> [address, got]

ASSUME MemoryAssumption == FlashBase \in Nat /\ RamBase \in Nat

VARIABLES
  step,         \* the part of load_module to run next
  ram,          \* the words of data, bss and GOT
  cursor,       \* the relocation the loop is at
  thunks        \* generated thunks: number -> [got, address]

loader == <<step, ram, cursor, thunks>>

Size(s) == image.size[s]
FlashLength == Size("text") + Size("init") + Size("plt")
GotOffset == Size("data") + Size("bss")
OwnGot == RamBase + GotOffset
RamLength == GotOffset + Size("got")
Slots == 0..Size("got") \div 2 - 1
Offset(slot) == GotOffset + 2 * slot

(* Parser.create and LoadedUniqueData.create; initializers and .got.plt    *)
(* make the kernel panic.                                                  *)
ProcessData ==
  /\ phase = "written" /\ step = "data"
  /\ IF Size("init") > 0 \/ Size("gotplt") > 0
     THEN step' = "panic" /\ UNCHANGED ram
     ELSE /\ step' = "got"
          /\ ram' = [i \in 0..RamLength - 1 |->
               CASE i < Size("data") -> image.body[FlashLength + i + 1]
                 [] i >= GotOffset -> image.body[FlashLength + i - Size("bss") + 1]
                 [] OTHER -> 0]
  /\ UNCHANGED <<cursor, thunks>>

(* get_section_address_for_offset: the section that a linked address is    *)
(* in, and the address at run time.                                        *)
InRange(a) == a < FlashLength + RamLength
RunTime(a) == IF a < FlashLength THEN FlashBase + a ELSE RamBase + a - FlashLength

(* The first loop of process_symbol_table_relocations.                     *)
ResolveGot ==
  LET resolved == {s \in Slots : s >= 3 /\ ram[Offset(s)] # 0}
  IN  /\ step = "got"
      /\ IF \A s \in resolved : InRange(ram[Offset(s)])
         THEN /\ step' = "slots"
              /\ ram' = [i \in DOMAIN ram |->
                   IF \E s \in resolved : i = Offset(s) THEN RunTime(ram[i])
                   ELSE IF \E s \in resolved : i = Offset(s) + 1 THEN OwnGot
                   ELSE ram[i]]
         ELSE step' = "refused" /\ UNCHANGED ram
      /\ cursor' = 1
      /\ UNCHANGED thunks
-----------------------------------------------------------------------------
(* get_base_address, for the codes two bits can hold                       *)
KnownBase(code) == \/ code \in {CodeSection, InitSection}
                   \/ code = DataSection /\ Size("data") > 0
BaseAddress(code) == CASE code = CodeSection -> FlashBase
                       [] code = InitSection -> FlashBase + Size("text")
                       [] OTHER -> RamBase

(* Module.find_symbol: its own exported symbols, which only a module with  *)
(* a GOT can give, then the children.                                      *)
HasGot == Size("got") > 0
Own(n) == {i \in Named(image.exported, n) :
             HasGot /\ KnownBase(image.exported[i].word % 4)}
Found(n) == Own(n) # {} \/ n \in DOMAIN Provided
FindSymbol(n) ==
  IF Own(n) # {}
  THEN LET w == image.exported[CHOOSE i \in Own(n) : TRUE].word
       IN  [address |-> BaseAddress(w % 4) + w \div 4, got |-> OwnGot]
  ELSE Provided[n]

(* got[index], the last thing a relocation does.  Of a slot behind the     *)
(* table a build without checks writes what still belongs to the module    *)
(* and then memory that is not modelled; one with checks panics.           *)
WriteSlot(slot, address, got) ==
  \/ /\ ram' = [i \in DOMAIN ram |-> CASE i = Offset(slot) -> address
                                       [] i = Offset(slot) + 1 -> got
                                       [] OTHER -> ram[i]]
     /\ cursor' = cursor + 1
     /\ UNCHANGED step
  \/ /\ slot \notin Slots
     /\ step' = "panic"
     /\ UNCHANGED <<ram, cursor>>
GenerateThunk(got, address) == thunks' = Append(thunks, [got |-> got, address |-> address])
NewThunk == ThunkBase + Len(thunks)

(* One symbol table relocation: [exported: 1, index: 31] and               *)
(* [function pointer: 1, symbol: 31].                                      *)
BindSlot ==
  LET rel == image.relocations[cursor]
      slot == rel.first \div 2
      table == IF rel.first % 2 = 1 THEN image.exported ELSE image.imported
      symbol == rel.second \div 2 + 1
      bindable == symbol \in DOMAIN table /\ Found(table[symbol].name)
      entry == FindSymbol(table[symbol].name)
  IN  /\ step = "slots" /\ cursor <= image.amounts.slots
      /\ \/ /\ bindable /\ rel.second % 2 = 1
            /\ GenerateThunk(entry.got, entry.address)
            /\ WriteSlot(slot, NewThunk, OwnGot)
         \/ /\ bindable /\ rel.second % 2 = 0
            /\ WriteSlot(slot, entry.address, entry.got)
            /\ UNCHANGED thunks
         \/ /\ ~bindable
            /\ step' = "refused"
            /\ UNCHANGED <<ram, cursor, thunks>>

(* One local relocation: [section: 2, index: 30], target offset; pointers  *)
(* to code go through a thunk.                                             *)
BindLocal ==
  LET rel == image.relocations[image.amounts.slots + cursor]
      address == BaseAddress(rel.first % 4) + rel.second
  IN  /\ step = "locals" /\ cursor <= image.amounts.locals
      /\ \/ /\ rel.first % 4 = CodeSection
            /\ GenerateThunk(OwnGot, address)
            /\ WriteSlot(rel.first \div 4, NewThunk, OwnGot)
         \/ /\ rel.first % 4 # CodeSection /\ KnownBase(rel.first % 4)
            /\ WriteSlot(rel.first \div 4, address, OwnGot)
            /\ UNCHANGED thunks
         \/ /\ ~KnownBase(rel.first % 4)
            /\ step' = "refused"
            /\ UNCHANGED <<ram, cursor, thunks>>

(* One data relocation: where to, [section: 2, from: 30].  Data, bss and   *)
(* GOT follow each other, so the three cases of the code write at the same *)
(* distance from the start of the data; only place 0 of a module without   *)
(* data is the address of an empty slice, somewhere else.                  *)
PatchData ==
  LET rel == image.relocations[image.amounts.slots + image.amounts.locals + cursor]
      code == rel.second % 4
      possible == KnownBase(code) /\ rel.first <= GotOffset + 2 * (Size("got") \div 2)
      elsewhere == rel.first = 0 /\ Size("data") = 0
  IN  /\ step = "datas" /\ cursor <= image.amounts.datas
      /\ \/ /\ possible /\ ~elsewhere
            /\ ram' = [ram EXCEPT ![rel.first] = BaseAddress(code) + rel.second \div 4]
            /\ cursor' = cursor + 1
            /\ UNCHANGED step
         \/ /\ possible /\ elsewhere
            /\ \/ cursor' = cursor + 1 /\ UNCHANGED step
               \/ step' = "panic" /\ UNCHANGED cursor
            /\ UNCHANGED ram
         \/ /\ ~possible
            /\ step' = "refused"
            /\ UNCHANGED <<ram, cursor>>
      /\ UNCHANGED thunks

NextTable ==
  /\ \/ step = "slots" /\ cursor > image.amounts.slots /\ step' = "locals"
     \/ step = "locals" /\ cursor > image.amounts.locals /\ step' = "datas"
     \/ step = "datas" /\ cursor > image.amounts.datas /\ step' = "loaded"
  /\ cursor' = 1
  /\ UNCHANGED <<ram, thunks>>
-----------------------------------------------------------------------------
Load == \/ ProcessData \/ ResolveGot \/ BindSlot \/ BindLocal \/ PatchData \/ NextTable

LoadStart == Start /\ step = "data" /\ ram = <<>> /\ cursor = 1 /\ thunks = <<>>
LoadNext == \/ Convert /\ UNCHANGED loader
            \/ Load /\ UNCHANGED vars
LoadSpec == LoadStart /\ [][LoadNext]_<<vars, loader>>
-----------------------------------------------------------------------------
(* The data relocations of the ELF file: those the linker fixed for its    *)
(* own addresses, and those of symbols the image knows.                    *)
Fixed(place) == \E i \in DOMAIN elf.relocations :
  LET r == elf.relocations[i]
  IN  r.offset = place /\ (Absolute(r) \/ Relative(r))

(* Once loaded, every word of data and bss is what the linker put there:   *)
(* an address where it is a relocated one, at its place in flash or in the *)
(* memory of the process, and nothing else has been written.               *)
DataAsLinked ==
  step = "loaded" =>
    \A s \in {"rodata", "data", "bss"} :
      \A a \in elf.addr[s]..elf.addr[s] + elf.size[s] - 1 :
        ram[a - FlashLength] = IF Fixed(a) THEN RunTime(elf.word[a])
                               ELSE IF s = "bss" THEN 0 ELSE elf.word[a]

(* The slots that no symbol is bound to lead to the linked address with    *)
(* the module's own GOT as base register.                                  *)
Bound(s) == \/ \E i \in 1..image.amounts.slots : image.relocations[i].first \div 2 = s
            \/ \E i \in image.amounts.slots + 1..image.amounts.slots + image.amounts.locals :
                 image.relocations[i].first \div 4 = s
GotAsLinked ==
  step = "loaded" =>
    \A s \in Slots :
      LET linked == elf.word[elf.addr["got"] + 2 * s]
      IN  s >= 3 /\ linked # 0 /\ ~Bound(s) =>
            ram[Offset(s)] = RunTime(linked) /\ ram[Offset(s) + 1] = OwnGot

(* Under the name of an exported function or variable the module itself,   *)
(* and one that depends on it, finds the place this module uses, together  *)
(* with its GOT: if it has a GOT, and for a variable some .data or .rodata *)
(* (without, find_symbol finds not even the variables in .bss).  A mark at *)
(* the very end of the part in flash has the address where the data        *)
(* starts: one linked address stands for two places then.                  *)
OnItsSide(s) == IF s.section \in {"text", "plt"} THEN s.value < FlashLength
                ELSE s.section \in {"data", "bss"} /\ s.value >= FlashLength
Findable(s) == HasGot /\ (s.section \in {"data", "bss"} => Size("data") > 0)
ExportsReachable ==
  image.written =>
    \A i \in DOMAIN exported :
      LET s == exported[i]
      IN  OnItsSide(s) /\ Findable(s) /\ Named(image.exported, s.name) = {i} =>
            /\ Found(s.name)
            /\ FindSymbol(s.name) = [address |-> RunTime(s.value), got |-> OwnGot]
=============================================================================
