------------------------- MODULE MCQuarantineStore -------------------------
(* Instances of QuarantineStore for TLC.  Every path has the base name n1  *)
(* unless a configuration says otherwise with NameOf <- DistinctNames.     *)
EXTENDS QuarantineInvariant, TLC

CONSTANTS p1, p2, n1, n2, f1, f2

OneName == [p \in Paths |-> n1]
DistinctNames == [p \in Paths |-> IF p = p1 THEN n1 ELSE n2]
MoveOnly == {<<"move", FALSE>>}

(* Restorers are interchangeable, and so are deleters and scanners.        *)
Symmetry == Permutations(Scanners) \cup Permutations(Restorers)
            \cup Permutations(Deleters)
=============================================================================
