\* The command is called while modules are loaded, perhaps two at once.
SPECIFICATION Spec
CONSTANTS
  libc = libc
  hello = hello
  Modules = {libc, hello}
  Mapped = {libc, hello}
  Empties = {{".bss"}, {".text"}}
  MaxLoads = 2
  Objfiles = {s1, s2}
SYMMETRY Alike
INVARIANTS
  NothingStale
  NothingForgotten
  AddressesOfLastLoad
