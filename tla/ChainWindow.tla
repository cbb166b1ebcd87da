------------------------------ MODULE ChainWindow ------------------------------
(***************************************************************************)
(* _chain of the monitor's collector: the latest block and the window of    *)
(* blocks below it, read by number in parallel, with rows kept from the     *)
(* collection before.  Nothing holds the chain still meanwhile, so rows of  *)
(* different branches can meet; parent hashes and a last read of the head   *)
(* decide what may be published.                                            *)
(***************************************************************************)
EXTENDS BlockTree

CONSTANT MaxRaises  \* bound on the collections lost with an exception

ASSUME RaisesAssumption == MaxRaises \in Nat

VARIABLES canon, latest, rows, recent, chain, shaken, moves, raises
vars == <<canon, latest, rows, recent, chain, shaken, moves, raises>>
(* shaken is history: a branch was left since the last collection ended.    *)

(* chains[name]: the latest block and the rows, or a failed chain.          *)
Chains      == [latest : Hashes, rows : SUBSET Blocks]
FailedChain == [latest |-> NoBlock, rows |-> {}]

TypeOK ==
  /\ canon \in Blocks /\ latest \in Hashes
  /\ rows \in SUBSET {b \in Blocks : latest # NoBlock /\ Number[b] \in Numbers(latest)}
  /\ recent \in SUBSET Blocks
  /\ chain \in Chains /\ shaken \in BOOLEAN
  /\ moves \in 0..MaxMoves /\ raises \in 0..MaxRaises

Init ==
  /\ canon \in Blocks /\ latest = NoBlock /\ rows = {} /\ recent = {}
  /\ chain = FailedChain /\ shaken = FALSE /\ moves = 0 /\ raises = 0

(* The canonical block at a number, if there is one.                        *)
At(n) == {b \in Line[canon] : Number[b] = n}

Move == /\ moves < MaxMoves /\ moves' = moves + 1
        /\ \E b \in Blocks \ {canon} :
             canon' = b /\ shaken' = (shaken \/ canon \notin Line[b])
        /\ UNCHANGED <<latest, rows, recent, chain, raises>>

(* Fault: all rows that were kept stand, the ones below the window too.     *)
BeginAllFault == /\ latest = NoBlock /\ latest' = canon /\ rows' = recent
                 /\ UNCHANGED <<canon, recent, chain, shaken, moves, raises>>

(* The latest block is read; kept rows stand for the numbers below it.      *)
Begin == /\ latest = NoBlock
         /\ latest' = canon
         /\ rows' = {b \in recent : Number[b] \in Numbers(canon) \ {Number[canon]}}
         /\ UNCHANGED <<canon, recent, chain, shaken, moves, raises>>

Missing == {n \in Numbers(latest) : \A b \in rows : Number[b] # n}

Ends(outcome) ==
  /\ chain' = outcome
  /\ latest' = NoBlock /\ rows' = {} /\ shaken' = FALSE
  /\ UNCHANGED <<canon, moves, raises>>

(* Fault: what was kept stays, though it does not fit.                      *)
KeepFault == Ends(FailedChain) /\ recent' = recent

Fails == Ends(FailedChain) /\ recent' = {}

(* A number that is not there any more leaves a hole, and the check fails.  *)
RowRead == /\ latest # NoBlock
           /\ \E n \in Missing :
                IF At(n) = {} THEN Fails
                ELSE /\ rows' = rows \cup At(n)
                     /\ UNCHANGED <<canon, latest, recent, chain, shaken, moves, raises>>

(* Fault: the parent hashes are not compared.                               *)
UnlinkedFault(head, window) == head \in window

(* Each row is the parent of the next, from the head down.                  *)
Linked(head, window) ==
  /\ head \in window
  /\ \A b \in window : Number[b] = FirstNumber(head) \/ Parent[b] \in window

(* The rows are compared, and the head is read by its number once more.     *)
Check == /\ latest # NoBlock /\ Missing = {}
         /\ IF Linked(latest, rows) /\ At(Number[latest]) = {latest}
            THEN Ends([latest |-> latest, rows |-> rows]) /\ recent' = rows
            ELSE Fails

(* An RPC raises: chains[name] is a failed chain, what was kept stays.      *)
Raises == /\ latest # NoBlock /\ raises < MaxRaises
          /\ chain' = FailedChain /\ latest' = NoBlock /\ rows' = {}
          /\ raises' = raises + 1
          /\ UNCHANGED <<canon, recent, shaken, moves>>

Next == Move \/ Begin \/ RowRead \/ Check \/ Raises

Spec == Init /\ [][Next]_vars

-----------------------------------------------------------------------------
(* A published window is the head and its own ancestors, whatever the chain *)
(* did between the reads (_chain, "Never publish a window assembled from    *)
(* different branches").                                                    *)
WindowOneBranch == chain.latest # NoBlock => chain.rows = Rows(chain.latest)

(* A window is published of a head that is canonical at that moment, and    *)
(* the collection only fails if a branch was left since the last one.       *)
Collection == INSTANCE SnapshotCollection WITH published <- chain.latest
CollectionSpec == Collection!Spec
=============================================================================
