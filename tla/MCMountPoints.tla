---------------------------- MODULE MCMountPoints ----------------------------
(* Model checking of MountPoints: one name starts with another.            *)
EXTENDS MountPoints, TLC

Names == {"a", "b", "ab"}
Sizes == "a" :> 1 @@ "b" :> 1 @@ "ab" :> 2
Rests == <<"a", "ab">> :> "b"
Symmetry == Permutations(Point \ {Root}) \cup Permutations(FileSystem)
=============================================================================
