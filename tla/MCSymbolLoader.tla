--------------------------- MODULE MCSymbolLoader ---------------------------
(* Model checking of the debugger's command: modules have an ELF file or   *)
(* not, a load may have no .bss and no .text.                              *)
EXTENDS SymbolLoader

CONSTANTS libc, hello
Alike == Permutations(Objfiles)
=============================================================================
