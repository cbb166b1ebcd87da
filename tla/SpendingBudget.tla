--------------------------- MODULE SpendingBudget ---------------------------
(***************************************************************************)
(* What a treasury policy promises, without Safes, bridges or allowances:   *)
(* one budget per epoch.  Money leaves only in the current epoch, and the   *)
(* total of an epoch never passes the limit.  Epochs only advance.          *)
(***************************************************************************)
EXTENDS Integers

CONSTANTS Limit,     \* the budget of one epoch
          AllEpochs  \* the epochs considered

VARIABLES epoch,  \* the current epoch
          out     \* out[e]: what left the treasury in epoch e

Init ==
  /\ epoch \in AllEpochs
  /\ out = [e \in AllEpochs |-> 0]

Advance ==
  /\ epoch' \in AllEpochs
  /\ epoch' > epoch
  /\ UNCHANGED out

Spend ==
  /\ \E n \in 1..Limit :
       /\ out[epoch] + n <= Limit
       /\ out' = [out EXCEPT ![epoch] = @ + n]
  /\ UNCHANGED epoch

Next == Advance \/ Spend

Spec == Init /\ [][Next]_<<epoch, out>>
=============================================================================
