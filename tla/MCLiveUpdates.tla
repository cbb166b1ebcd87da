---------------------------- MODULE MCLiveUpdates ----------------------------
(* Small instances of LiveUpdates for TLC: two short branches.               *)
EXTENDS LiveUpdates, TLC

CONSTANTS g, a1, a2, b1

(* A branch of two blocks and one of one block, over a common first block.  *)
Fork == {g, a1, a2, b1}
ForkParent == (g :> NoBlock) @@ (a1 :> g) @@ (a2 :> a1) @@ (b1 :> g)
ForkNumber == (g :> 0) @@ (a1 :> 1) @@ (a2 :> 2) @@ (b1 :> 1)
ForkLine   == (g :> {g}) @@ (a1 :> {a1, g}) @@ (a2 :> {a2, a1, g}) @@ (b1 :> {b1, g})

(* One block over the first.                                                *)
Pair == {g, a1}
PairParent == (g :> NoBlock) @@ (a1 :> g)
PairNumber == (g :> 0) @@ (a1 :> 1)
PairLine   == (g :> {g}) @@ (a1 :> {a1, g})

(* The chain can only leave its head for the block before it.               *)
InitAtTop  == Init /\ server.canon = a1
FromTheTop == InitAtTop /\ [][Next]_vars /\ Fairness
=============================================================================
