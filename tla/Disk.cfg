\* Images of layouts, careful or not, with a bootloader installed once or again.
SPECIFICATION Spec
CONSTANTS
  Layouts <- AllLayouts
  Yasboots = {0, 1, 2, 3}
  Sector = 2
  Starts = {0, 2, 3, 4, 6, 8}
  Erases = {1, 4}
  Sizes = {12}
INVARIANTS
  PartitionsFound
  InstalledDiskBoots
PROPERTIES
  BootloaderKeepsPartitions
