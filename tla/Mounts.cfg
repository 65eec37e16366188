\* Mount points that come and go in any order.
SPECIFICATION Spec
CONSTANTS
  Name <- Names
  Size <- Sizes
  Rest <- Rests
  Root = root
  Point = {root, p1, p2, p3}
  FileSystem = {f1, f2, f3, f4}
  MaxLength = 3
SYMMETRY Symmetry
INVARIANTS
  LookupIsLongestMatch
  NothingIsHidden
  OwnedOnce
