--------------------------- MODULE ChainWindowProofs ---------------------------
(***************************************************************************)
(* Proofs about ChainWindow, for every tree of blocks and every window: a   *)
(* published window is of one branch, and the collector implements          *)
(* SnapshotCollection.  The invariant behind both says that as long as no   *)
(* branch was left everything read or kept is of the canonical one.         *)
(***************************************************************************)
EXTENDS ChainWindow, LeastCounterexample, TLAPS

-----------------------------------------------------------------------------
(* Facts about the tree.                                                    *)

(* A block is on its own branch, and its parent too.                        *)
LEMMA LineStep ==
  /\ \A b \in Blocks : b \in Line[b] /\ Line[b] \subseteq Blocks /\ Number[b] \in Nat
  /\ \A b \in Blocks : Number[b] > 0 =>
       Parent[b] \in Blocks /\ Parent[b] \in Line[b] /\ Number[Parent[b]] = Number[b] - 1
<1>1. \A b \in Blocks : b \in Line[b] /\ Line[b] \subseteq Blocks /\ Number[b] \in Nat
  BY TreeAssumption
<1>2. ASSUME NEW b \in Blocks, Number[b] > 0
      PROVE  Parent[b] \in Blocks /\ Parent[b] \in Line[b] /\ Number[Parent[b]] = Number[b] - 1
  <2>1. b # Genesis
    BY <1>2, TreeAssumption
  <2>2. Parent[b] \in Blocks /\ Number[b] = Number[Parent[b]] + 1 /\ Line[b] = {b} \cup Line[Parent[b]]
    BY <2>1, TreeAssumption
  <2>3. Parent[b] \in Line[Parent[b]] /\ Number[Parent[b]] \in Nat
    BY <2>2, <1>1
  <2> QED
    BY <2>2, <2>3
<1> QED
  BY <1>1, <1>2

(* A branch holds the branches of its blocks, and one block of each number. *)
LEMMA LineBelow ==
  ASSUME NEW b \in Blocks
  PROVE  /\ \A x \in Line[b] : Line[x] \subseteq Line[b] /\ Number[x] <= Number[b]
         /\ \A x, y \in Line[b] : Number[x] = Number[y] => x = y
         /\ \A n \in 0..Number[b] : \E x \in Line[b] : Number[x] = n
BY TreeAssumption, PathsNested

LEMMA FirstBound ==
  ASSUME NEW b \in Blocks
  PROVE  FirstNumber(b) \in Nat /\ FirstNumber(b) <= Number[b]
BY LineStep, TreeAssumption DEF FirstNumber

(* At most one row of each number.                                          *)
Single(set) == \A x, y \in set : Number[x] = Number[y] => x = y

(* Every number of the head's window has a row.                             *)
Filled(head, window) == \A n \in Numbers(head) : \E b \in window : Number[b] = n

(* Rows that are linked from the head down are the head and its ancestors:  *)
(* take the highest one that is not, and look at the row above it.          *)
LEMMA LinkedIsRows ==
  ASSUME NEW head \in Blocks,
         NEW window \in SUBSET {b \in Blocks : Number[b] \in Numbers(head)},
         Single(window), Filled(head, window), Linked(head, window)
  PROVE  window = Rows(head)
<1> DEFINE strays == {b \in window : b \notin Line[head]}
           depths == {Number[head] - Number[b] : b \in strays}
<1>1. \A b \in window : /\ b \in Blocks /\ Number[b] \in Nat
                        /\ FirstNumber(head) <= Number[b] /\ Number[b] <= Number[head]
  BY LineStep, FirstBound DEF Numbers
<1>2. Number[head] \in Nat /\ head \in Line[head] /\ FirstNumber(head) \in Nat
  BY LineStep, FirstBound
<1>3. strays = {}
  <2> SUFFICES ASSUME strays # {} PROVE FALSE
    OBVIOUS
  <2>1. depths \in SUBSET Nat /\ depths # {}
    BY <1>1, <1>2
  <2> HIDE DEF depths
  <2>2. PICK d \in depths : \A e \in depths : d <= e
    BY <2>1, LeastNumber
  <2>3. PICK b \in strays : d = Number[head] - Number[b]
    BY <2>2 DEF depths
  <2>4. b # head
    BY <1>2, <2>3
  <2>5. head \in window
    BY DEF Linked
  <2>6. Number[b] # Number[head]
    BY <2>3, <2>4, <2>5 DEF Single
  <2>7. Number[b] + 1 \in Numbers(head)
    BY <1>1, <1>2, <2>3, <2>6 DEF Numbers
  <2>8. PICK c \in window : Number[c] = Number[b] + 1
    BY <2>7 DEF Filled
  <2>9. c \in Line[head]
    <3>1. SUFFICES ASSUME c \in strays PROVE FALSE
      OBVIOUS
    <3>2. Number[head] - Number[c] \in depths
      BY <3>1 DEF depths
    <3>3. d <= Number[head] - Number[c]
      BY <2>2, <3>2
    <3> QED
      BY <1>1, <1>2, <2>3, <2>8, <3>3
  <2>10. Number[c] # FirstNumber(head) /\ Number[c] > 0
    BY <1>1, <1>2, <2>3, <2>8
  <2>11. Parent[c] \in window
    BY <2>8, <2>10 DEF Linked
  <2>12. Parent[c] \in Line[c] /\ Number[Parent[c]] = Number[b]
    BY <1>1, <2>3, <2>8, <2>10, LineStep
  <2>13. Parent[c] = b
    BY <2>3, <2>11, <2>12 DEF Single
  <2>14. Line[c] \subseteq Line[head]
    BY <2>9, LineBelow
  <2> QED
    BY <2>3, <2>12, <2>13, <2>14
<1>4. window \subseteq Rows(head)
  BY <1>3 DEF Rows
<1>5. ASSUME NEW x \in Rows(head) PROVE x \in window
  <2>1. x \in Line[head] /\ Number[x] \in Numbers(head)
    BY DEF Rows
  <2>2. PICK b \in window : Number[b] = Number[x]
    BY <2>1 DEF Filled
  <2>3. b \in Line[head]
    BY <1>3, <2>2
  <2> QED
    BY <2>1, <2>2, <2>3, LineBelow
<1> QED
  BY <1>4, <1>5

(* The rows of a head that is on a branch are linked: nothing else fits.    *)
LEMMA BranchIsLinked ==
  ASSUME NEW b \in Blocks, NEW head \in Line[b], NEW window \in SUBSET Line[b],
         Filled(head, window),
         \A x \in window : Number[x] \in Numbers(head)
  PROVE  Linked(head, window)
<1>1. /\ head \in Blocks /\ Number[head] \in Nat
      /\ FirstNumber(head) \in Nat /\ FirstNumber(head) <= Number[head]
  BY LineStep, FirstBound
<1>2. \A x \in Line[b], y \in Line[b] : Number[x] = Number[y] => x = y
  BY LineBelow
<1>3. head \in window
  <2>1. Number[head] \in Numbers(head)
    BY <1>1 DEF Numbers
  <2>2. PICK x \in window : Number[x] = Number[head]
    BY <2>1 DEF Filled
  <2> QED
    BY <1>2, <2>2
<1>4. ASSUME NEW c \in window, Number[c] # FirstNumber(head) PROVE Parent[c] \in window
  <2>1. c \in Blocks /\ Number[c] \in Nat /\ Number[c] > 0 /\ Number[c] - 1 \in Numbers(head)
    BY <1>1, <1>4, LineStep DEF Numbers
  <2>2. PICK x \in window : Number[x] = Number[c] - 1
    BY <2>1 DEF Filled
  <2>3. Parent[c] \in Line[c] /\ Number[Parent[c]] = Number[c] - 1
    BY <2>1, LineStep
  <2>4. Parent[c] \in Line[b]
    BY <2>3, LineBelow
  <2> QED
    BY <1>2, <2>2, <2>3, <2>4
<1> QED
  BY <1>3, <1>4 DEF Linked

-----------------------------------------------------------------------------
(* The inductive invariant.                                                 *)

(* As long as no branch was left, all that was read is on the canonical one. *)
OnBranch ==
  ~shaken => /\ recent \subseteq Line[canon]
             /\ latest # NoBlock => latest \in Line[canon] /\ rows \subseteq Line[canon]

IInv == TypeOK /\ Single(rows) /\ Single(recent) /\ OnBranch /\ WindowOneBranch

(* Set-valued facts of TypeOK in the form the lemmas above want.            *)
LEMMA Typed ==
  ASSUME TypeOK
  PROVE  /\ canon \in Blocks /\ Line[canon] \subseteq Blocks /\ recent \subseteq Blocks
         /\ latest # NoBlock =>
              latest \in Blocks /\ rows \in SUBSET {b \in Blocks : Number[b] \in Numbers(latest)}
         /\ latest = NoBlock => rows = {}
BY LineStep DEF TypeOK, Hashes

LEMMA FailedType == FailedChain \in Chains /\ FailedChain.latest = NoBlock
BY DEF FailedChain, Chains, Hashes

LEMMA InitHolds == Init => IInv
<1> SUFFICES ASSUME Init PROVE IInv
  OBVIOUS
<1>1. TypeOK
  <2>1. canon \in Blocks /\ latest \in Hashes /\ chain \in Chains /\ shaken \in BOOLEAN
    BY FailedType DEF Init, Hashes
  <2>2. moves \in 0..MaxMoves /\ raises \in 0..MaxRaises
    BY TreeAssumption, RaisesAssumption DEF Init
  <2>3. rows = {} /\ recent = {}
    BY DEF Init
  <2> QED
    BY <2>1, <2>2, <2>3 DEF TypeOK
<1>2. Single(rows) /\ Single(recent) /\ OnBranch /\ WindowOneBranch
  BY FailedType DEF Init, Single, OnBranch, WindowOneBranch
<1> QED
  BY <1>1, <1>2 DEF IInv

LEMMA MoveKeeps == ASSUME IInv, Move PROVE IInv'
<1> USE DEF IInv
<1>1. PICK b \in Blocks \ {canon} : canon' = b /\ shaken' = (shaken \/ canon \notin Line[b])
  BY DEF Move
<1>2. UNCHANGED <<latest, rows, recent, chain, raises>> /\ moves' = moves + 1 /\ moves < MaxMoves
  BY DEF Move
<1>3. TypeOK'
  BY <1>1, <1>2, TreeAssumption DEF TypeOK
<1>4. OnBranch'
  <2> SUFFICES ASSUME ~shaken' PROVE OnBranch'
    BY DEF OnBranch
  <2>1. ~shaken /\ canon \in Line[b] /\ Line[canon] \subseteq Line[b]
    BY <1>1, LineBelow
  <2> QED
    BY <1>1, <1>2, <2>1 DEF OnBranch
<1> QED
  BY <1>2, <1>3, <1>4 DEF Single, WindowOneBranch

LEMMA BeginKeeps == ASSUME IInv, Begin PROVE IInv'
<1> USE DEF IInv
<1>1. /\ latest' = canon
      /\ rows' = {b \in recent : Number[b] \in Numbers(canon) \ {Number[canon]}}
      /\ UNCHANGED <<canon, recent, chain, shaken, moves, raises>>
  BY DEF Begin
<1>2. canon \in Blocks /\ canon \in Line[canon] /\ recent \subseteq Blocks /\ canon # NoBlock
  BY Typed, LineStep, TreeAssumption
<1>3. TypeOK'
  BY <1>1, <1>2 DEF TypeOK, Hashes
<1>4. Single(rows') /\ Single(recent')
  BY <1>1 DEF Single
<1>5. OnBranch'
  BY <1>1, <1>2 DEF OnBranch
<1> QED
  BY <1>1, <1>3, <1>4, <1>5 DEF Single, WindowOneBranch

(* Whatever ends a collection leaves no rows; what it says must be kept.    *)
LEMMA EndsKeeps ==
  ASSUME IInv, NEW outcome \in Chains, Ends(outcome), recent' \in SUBSET Line[canon],
         Single(recent'), outcome.latest # NoBlock => outcome.rows = Rows(outcome.latest)
  PROVE  IInv'
<1> USE DEF IInv
<1>1. /\ chain' = outcome /\ latest' = NoBlock /\ rows' = {} /\ shaken' = FALSE
      /\ UNCHANGED <<canon, moves, raises>>
  BY DEF Ends
<1>2. TypeOK'
  BY <1>1, Typed DEF TypeOK, Hashes
<1>3. Single(rows') /\ OnBranch'
  BY <1>1 DEF Single, OnBranch
<1> QED
  BY <1>1, <1>2, <1>3 DEF Single, WindowOneBranch

LEMMA FailsKeeps == ASSUME IInv, Fails PROVE IInv'
<1>1. FailedChain \in Chains /\ FailedChain.latest = NoBlock
  BY FailedType
<1>2. recent' = {} /\ Ends(FailedChain)
  BY DEF Fails
<1>3. Single(recent') /\ recent' \in SUBSET Line[canon]
  BY <1>2 DEF Single
<1> QED
  BY <1>1, <1>2, <1>3, EndsKeeps

(* A row that is read is the only canonical block of its number.            *)
LEMMA RowReadKeeps == ASSUME IInv, RowRead PROVE IInv'
<1> USE DEF IInv
<1>1. latest # NoBlock
  BY DEF RowRead
<1>2. PICK n \in Missing :
        IF At(n) = {} THEN Fails
        ELSE /\ rows' = rows \cup At(n)
             /\ UNCHANGED <<canon, latest, recent, chain, shaken, moves, raises>>
  BY DEF RowRead
<1>3. CASE At(n) = {}
  BY <1>2, <1>3, FailsKeeps
<1>4. CASE At(n) # {}
  <2>1. /\ rows' = rows \cup At(n)
        /\ UNCHANGED <<canon, latest, recent, chain, shaken, moves, raises>>
    BY <1>2, <1>4
  <2>2. n \in Numbers(latest) /\ \A b \in rows : Number[b] # n
    BY <1>2 DEF Missing
  <2>3. At(n) \subseteq Line[canon] /\ At(n) \subseteq Blocks /\ \A b \in At(n) : Number[b] = n
    BY Typed DEF At
  <2>4. TypeOK'
    BY <1>1, <2>1, <2>2, <2>3 DEF TypeOK
  <2>5. \A x, y \in At(n) : x = y
    BY <2>3, Typed, LineBelow
  <2>6. Single(rows')
    BY <2>1, <2>2, <2>3, <2>5 DEF Single
  <2>7. OnBranch'
    BY <1>1, <2>1, <2>3 DEF OnBranch
  <2> QED
    BY <2>1, <2>4, <2>6, <2>7 DEF Single, WindowOneBranch
<1> QED
  BY <1>3, <1>4

(* What passes the check is the window of a head that is still canonical.   *)
LEMMA CheckedWindow ==
  ASSUME TypeOK, Single(rows), latest # NoBlock, Missing = {},
         Linked(latest, rows), At(Number[latest]) = {latest}
  PROVE  rows = Rows(latest) /\ latest \in Line[canon] /\ rows \subseteq Line[canon]
<1>1. latest \in Blocks /\ rows \in SUBSET {b \in Blocks : Number[b] \in Numbers(latest)}
  BY Typed
<1>2. Filled(latest, rows)
  BY DEF Missing, Filled
<1>3. rows = Rows(latest)
  BY <1>1, <1>2, LinkedIsRows
<1>4. latest \in Line[canon]
  BY DEF At
<1>5. Line[latest] \subseteq Line[canon] /\ rows \subseteq Line[latest]
  BY <1>3, <1>4, LineBelow, Typed DEF Rows
<1> QED
  BY <1>3, <1>4, <1>5

LEMMA CheckKeeps == ASSUME IInv, Check PROVE IInv'
<1> USE DEF IInv
<1>1. latest # NoBlock /\ Missing = {}
  BY DEF Check
<1>2. CASE Linked(latest, rows) /\ At(Number[latest]) = {latest}
  <2>1. Ends([latest |-> latest, rows |-> rows]) /\ recent' = rows
    BY <1>2 DEF Check
  <2>2. rows = Rows(latest) /\ rows \in SUBSET Line[canon]
    BY <1>1, <1>2, CheckedWindow
  <2>3. [latest |-> latest, rows |-> rows] \in Chains
    BY Typed DEF Chains, TypeOK
  <2> QED
    BY <2>1, <2>2, <2>3, EndsKeeps
<1>3. CASE ~(Linked(latest, rows) /\ At(Number[latest]) = {latest})
  <2>1. Fails
    BY <1>3 DEF Check
  <2> QED
    BY <2>1, FailsKeeps
<1> QED
  BY <1>2, <1>3

LEMMA RaisesKeeps == ASSUME IInv, Raises PROVE IInv'
<1> USE DEF IInv
<1>1. /\ chain' = FailedChain /\ latest' = NoBlock /\ rows' = {} /\ raises' = raises + 1
      /\ raises < MaxRaises /\ UNCHANGED <<canon, recent, shaken, moves>>
  BY DEF Raises
<1>2. TypeOK'
  BY <1>1, RaisesAssumption DEF TypeOK, Chains, FailedChain, Hashes
<1> QED
  BY <1>1, <1>2 DEF Single, OnBranch, WindowOneBranch, FailedChain

LEMMA StepKeeps == ASSUME IInv, [Next]_vars PROVE IInv'
<1>1. CASE UNCHANGED vars
  BY <1>1 DEF vars, IInv, TypeOK, Single, OnBranch, WindowOneBranch, Rows, Numbers, FirstNumber
<1> QED
  BY <1>1, MoveKeeps, BeginKeeps, RowReadKeeps, CheckKeeps, RaisesKeeps DEF Next

(* _chain: every step of a collection keeps what was read within the window *)
(* of its head, one row for each number, and says the truth about shaken.   *)
THEOREM CollectionSound == Spec => []IInv
<1> QED
  BY InitHolds, StepKeeps, PTL DEF Spec

(* _chain: the collector's state keeps its type; the rows read or kept stay *)
(* within the window of the latest block.                                   *)
THEOREM TypeCorrect == Spec => []TypeOK
<1>1. IInv => TypeOK
  BY DEF IInv
<1> QED
  BY <1>1, CollectionSound, PTL

(* _chain, "Never publish a window assembled from different branches": for  *)
(* every tree, window and history of reorganisations.                       *)
THEOREM WindowsAreWhole == Spec => []WindowOneBranch
<1>1. IInv => WindowOneBranch
  BY DEF IInv
<1> QED
  BY <1>1, CollectionSound, PTL

-----------------------------------------------------------------------------
(* The collector implements SnapshotCollection.                             *)

(* A number without a block, or rows that do not fit: a branch was left.    *)
LEMMA FailsOnlyShaken ==
  ASSUME IInv, latest # NoBlock, ~shaken
  PROVE  /\ \A n \in Missing : At(n) # {}
         /\ Missing = {} => Linked(latest, rows) /\ At(Number[latest]) = {latest}
<1> USE DEF IInv
<1>1. /\ canon \in Blocks /\ latest \in Blocks
      /\ latest \in Line[canon] /\ rows \in SUBSET Line[canon]
      /\ \A b \in rows : Number[b] \in Numbers(latest)
  BY Typed DEF OnBranch
<1>2. ASSUME NEW n \in Missing PROVE At(n) # {}
  <2>1. n \in Numbers(latest) /\ Number[latest] <= Number[canon]
    BY <1>1, LineBelow DEF Missing
  <2>2. n \in 0..Number[canon]
    BY <1>1, <2>1, FirstBound, LineStep DEF Numbers
  <2> QED
    BY <1>1, <2>2, LineBelow DEF At
<1>3. ASSUME Missing = {} PROVE Linked(latest, rows)
  <2>1. Filled(latest, rows)
    BY <1>3 DEF Missing, Filled
  <2> QED
    BY <1>1, <2>1, BranchIsLinked
<1>4. At(Number[latest]) = {latest}
  BY <1>1, LineBelow DEF At
<1> QED
  BY <1>2, <1>3, <1>4

(* A failed check gives up; a passed one publishes a canonical head.        *)
LEMMA CheckRefines == ASSUME IInv, Check PROVE Collection!Done \/ Collection!GivesUp
<1> USE DEF IInv
<1>1. latest # NoBlock /\ Missing = {}
  BY DEF Check
<1>2. CASE Linked(latest, rows) /\ At(Number[latest]) = {latest}
  <2>1. Ends([latest |-> latest, rows |-> rows])
    BY <1>2 DEF Check
  <2>2. latest \in Line[canon]
    BY <1>1, <1>2, CheckedWindow
  <2> QED
    BY <1>1, <2>1, <2>2 DEF Ends, Collection!Done
<1>3. CASE ~(Linked(latest, rows) /\ At(Number[latest]) = {latest})
  <2>1. shaken
    BY <1>1, <1>3, FailsOnlyShaken DEF TypeOK
  <2>2. Fails
    BY <1>3 DEF Check
  <2> QED
    BY <1>1, <2>1, <2>2 DEF Fails, Ends, FailedChain, Collection!GivesUp
<1> QED
  BY <1>2, <1>3

LEMMA RowReadRefines ==
  ASSUME IInv, RowRead
  PROVE  Collection!GivesUp \/ UNCHANGED <<canon, latest, chain, shaken, raises>>
<1> USE DEF IInv
<1>1. latest # NoBlock
  BY DEF RowRead
<1>2. PICK n \in Missing :
        IF At(n) = {} THEN Fails
        ELSE /\ rows' = rows \cup At(n)
             /\ UNCHANGED <<canon, latest, recent, chain, shaken, moves, raises>>
  BY DEF RowRead
<1>3. CASE At(n) = {}
  <2>1. shaken
    BY <1>1, <1>2, <1>3, FailsOnlyShaken DEF TypeOK
  <2>2. Fails
    BY <1>2, <1>3
  <2> QED
    BY <1>1, <2>1, <2>2 DEF Fails, Ends, FailedChain, Collection!GivesUp
<1>4. CASE At(n) # {}
  BY <1>2, <1>4
<1> QED
  BY <1>3, <1>4

(* _chain: it publishes a head that is canonical when the last read is      *)
(* answered, and fails only over a reorganisation or a failed read.         *)
THEOREM CollectorImplements == Spec => CollectionSpec
<1>1. Init => Collection!Init
  BY DEF Init, FailedChain, Collection!Init
<1>2. ASSUME IInv, [Next]_vars PROVE [Collection!Next]_(Collection!vars)
  <2>1. CASE Move
    BY <2>1 DEF Move, Collection!Move, Collection!Next
  <2>2. CASE Begin
    BY <2>2 DEF Begin, Collection!Begin, Collection!Next
  <2>3. CASE RowRead
    BY <1>2, <2>3, RowReadRefines DEF Collection!Next, Collection!vars
  <2>4. CASE Check
    BY <1>2, <2>4, CheckRefines DEF Collection!Next
  <2>5. CASE Raises
    BY <2>5 DEF Raises, FailedChain, Collection!Raised, Collection!Next
  <2>6. CASE UNCHANGED vars
    BY <2>6 DEF vars, Collection!vars
  <2> QED
    BY <1>2, <2>1, <2>2, <2>3, <2>4, <2>5, <2>6 DEF Next
<1> QED
  BY <1>1, <1>2, CollectionSound, PTL DEF Spec, CollectionSpec, Collection!Spec
=============================================================================
