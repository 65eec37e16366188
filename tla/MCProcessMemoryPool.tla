------------------------- MODULE MCProcessMemoryPool -------------------------
(* Model checking of ProcessMemoryPool on small instances.                 *)
EXTENDS ProcessMemoryPool

Symmetry == Permutations(Pid)
=============================================================================
