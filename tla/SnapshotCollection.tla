-------------------------- MODULE SnapshotCollection --------------------------
(* What a collection promises of a chain: it publishes the head it started  *)
(* from, if that head is on the canonical branch when the collection ends,  *)
(* and only gives up if some branch was left since the last one ended, or   *)
(* with an exception.                                                       *)
EXTENDS BlockTree

VARIABLES
  canon, latest,  \* the head of the chain, and of the collection at work
  published,
  shaken,         \* a branch was left since the last collection ended
  raises          \* exceptions so far
vars == <<canon, latest, published, shaken, raises>>

Init == /\ canon \in Blocks /\ latest = NoBlock /\ published = NoBlock
        /\ shaken = FALSE /\ raises = 0

(* The chain goes on, or to another branch, or back.                        *)
Move == \E b \in Blocks \ {canon} :
  /\ canon' = b /\ shaken' = (shaken \/ canon \notin Line[b])
  /\ UNCHANGED <<latest, published, raises>>

Begin == /\ latest = NoBlock /\ latest' = canon
         /\ UNCHANGED <<canon, published, shaken, raises>>

Done == /\ latest # NoBlock /\ latest \in Line[canon]
        /\ published' = latest /\ latest' = NoBlock /\ shaken' = FALSE
        /\ UNCHANGED <<canon, raises>>

GivesUp == /\ latest # NoBlock /\ shaken
           /\ published' = NoBlock /\ latest' = NoBlock /\ shaken' = FALSE
           /\ UNCHANGED <<canon, raises>>

Raised == /\ latest # NoBlock /\ raises' = raises + 1
          /\ published' = NoBlock /\ latest' = NoBlock
          /\ UNCHANGED <<canon, shaken>>

Next == Move \/ Begin \/ Done \/ GivesUp \/ Raised

Spec == Init /\ [][Next]_vars
=============================================================================
