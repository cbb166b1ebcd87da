----------------------------- MODULE MCTraceJobs -----------------------------
(* Small instances of TraceJobs for TLC.                                    *)
EXTENDS TraceJobs, TLC

CONSTANTS k1, k2, v1, v2, v3

TwoKeys   == {k1, k2}
TwoIds    == {v1, v2}
ThreeIds  == {v1, v2, v3}

(* Lease names are interchangeable: nothing orders them.                    *)
Symmetry == Permutations(Ids)
=============================================================================
