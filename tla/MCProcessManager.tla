-------------------------- MODULE MCProcessManager --------------------------
(* Model checking of ProcessManager on small instances.                    *)
EXTENDS ProcessManager, TLC

Codes == {-1, 0, 1}
KernelCodes == {-1, 0}
OneCode == {0}
Symmetry == Permutations(Proc)
=============================================================================
