---------------------------- MODULE MCChainWindow ----------------------------
(* A small instance of ChainWindow for TLC: two branches, three and two     *)
(* blocks long, over a common first block.                                  *)
EXTENDS ChainWindow, TLC

CONSTANTS g, a1, a2, a3, b1, b2

Tree == {g, a1, a2, a3, b1, b2}
TreeParent == (g :> NoBlock) @@ (a1 :> g) @@ (a2 :> a1) @@ (a3 :> a2)
              @@ (b1 :> g) @@ (b2 :> b1)
TreeNumber == (g :> 0) @@ (a1 :> 1) @@ (a2 :> 2) @@ (a3 :> 3) @@ (b1 :> 1) @@ (b2 :> 2)
TreeLine   == (g :> {g}) @@ (a1 :> {a1, g}) @@ (a2 :> {a2, a1, g})
              @@ (a3 :> {a3, a2, a1, g}) @@ (b1 :> {b1, g}) @@ (b2 :> {b2, b1, g})
=============================================================================
