\* Conversion and loading of files whose relocations come in any order.
SPECIFICATION LoadSpec
CONSTANTS
  Optional = {{}, {"plt", "rodata"}, {"init"}, {"plt", "empty"}}
  Odd = {{"nogot"}, {"empty", "nobss"}}
  Homes = {"data", "text", "hidden", "SHN_UNDEF"}
  Entries = {1, 2}
  Elfs <- Files
  Kinds = {"executable", "shared_library", "none"}
  Extras <- Libraries
  MaxAddress = 24
  MaxOffset = 32
  FlashBase = 100
  RamBase = 500
  ThunkBase = 800
  Provided <- OnlyV
INVARIANTS
  DataEntriesLead
  EntriesNameTheirSymbol
  DataAsLinked
  GotAsLinked
  ExportsReachable
CHECK_DEADLOCK FALSE
