------------------------- MODULE MCVerificationQueue -------------------------
(* Small instances of VerificationQueue for TLC.                            *)
EXTENDS VerificationQueue, TLC

CONSTANTS j1, j2, j3, b1, b2, c1, c2, a1, a2

TwoJobs   == {j1, j2}
ThreeJobs == {j1, j2, j3}

(* The deployment creates a contract and another one whose source is not    *)
(* retained in the first block; in the second it fails.                     *)
TwoBlocks == b1 :> {c1, c2} @@ b2 :> {}
OneBlock   == b1 :> {c1}

(* The process knows all the jobs, or not the first one.                    *)
Either == {{j1, j2}, {j2}}
Anyone == SUBSET {j1, j2}

Symmetry == Permutations(Jobs) \cup Permutations(Admissions)
=============================================================================
