------------------------------- MODULE BlockTree -------------------------------
(* The blocks of a chain with all its branches, as the monitor can read them *)
(* by number (of the canonical branch) or by hash.                           *)
EXTENDS Integers, FiniteSets

CONSTANTS
  Blocks,      \* the blocks of every branch
  Genesis,
  NoBlock,     \* no hash
  Parent,      \* parentHash, NoBlock for the first block
  Number,
  Line,        \* a block and its ancestors
  Window,      \* recent_blocks
  MaxMoves     \* bound on the changes of the canonical head

ASSUME TreeAssumption ==
  /\ Genesis \in Blocks /\ NoBlock \notin Blocks
  /\ Number \in [Blocks -> Nat]
  /\ Parent \in [Blocks -> Blocks \cup {NoBlock}]
  /\ Line \in [Blocks -> SUBSET Blocks]
  /\ Line[Genesis] = {Genesis} /\ Number[Genesis] = 0 /\ Parent[Genesis] = NoBlock
  /\ \A b \in Blocks \ {Genesis} :
       /\ Parent[b] \in Blocks
       /\ Number[b] = Number[Parent[b]] + 1
       /\ Line[b] = {b} \cup Line[Parent[b]]
  /\ Window \in Nat \ {0} /\ MaxMoves \in Nat

Hashes == Blocks \cup {NoBlock}

(* The numbers of a window, and the rows it has when it is of one branch.   *)
FirstNumber(b) == IF Number[b] >= Window THEN Number[b] - Window + 1 ELSE 0
Numbers(b)     == FirstNumber(b)..Number[b]
Rows(b)        == {x \in Line[b] : Number[x] \in Numbers(b)}
=============================================================================
