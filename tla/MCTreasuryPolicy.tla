-------------------------- MODULE MCTreasuryPolicy --------------------------
(* Small instances of TreasuryPolicy for TLC.                               *)
EXTENDS TreasuryPolicy

(* An L1 Safe with three units, an L2 Safe with two, both backed.           *)
MCBalances ==
  [a \in Accounts |->
    CASE a = "safeL1"   -> 3
      [] a = "safeL2"   -> 2
      [] a = "bridgeL1" -> 2
      [] OTHER          -> 0]

(* The other bridges are out of the way.                                    *)
MCPeersAlone ==
  [b \in Bridges |-> IF b \in DOMAIN Partner THEN Partner[b] ELSE NoPeer]

(* The other bridges are configured for the treasury's, and wait for it.    *)
MCPeersWaiting ==
  [b \in Bridges |-> IF b \in L1Bridges THEN "bridgeL2" ELSE "bridgeL1"]

(* One unit in each Safe and outside, the L2 one backed: enough to deposit, *)
(* to leave a unit on the policy or its alias, to pay from both Safes, to   *)
(* withdraw and to lock again.                                              *)
MCBalancesUnit ==
  [a \in Accounts |->
    IF a \in {"safeL1", "safeL2", "bridgeL1", "outsideL1"} THEN 1 ELSE 0]

(* setAllowance(delegate, token, ..., 10, 10), as the client calls it: the  *)
(* base is one period.  The ceiling is lowered or restored.                 *)
AlignedSettings ==
  {[amount |-> n, reset |-> PeriodMin, base |-> PeriodMin] : n \in {1, 2}}

(* Time, signatures, settings and payments, with nobody else on the bridge: *)
(* what the two clocks can do to the budget.                                *)
ClocksNext ==
  \/ \E c \in Chains : Tick(c)
  \/ SignSomething(Chains)
  \/ \E p \in signed : Pay(p)
  \/ \E c \in Chains, s \in Settings : Reconfigure(c, s)

ClocksSpec == Init /\ [][ClocksNext]_vars

(* One epoch, payments of the L2 Safe, with third parties, transfers by the *)
(* L1 owners, rejections and the admins of the pair, whose bridges change   *)
(* peers: what interleaved use of the Safes and of the bridges can do to a  *)
(* signed payment and to the tokens.                                        *)
LedgerNext ==
  \/ SignSomething({"L2"})
  \/ \E p \in signed : Pay(p)
  \/ \E n \in Amounts : n > 0 /\ OwnerTransfer("L1", n)
  \/ Reject("L2")
  \/ ThirdParty
  \/ BridgeAdmin(DOMAIN Partner)

LedgerSpec == Init /\ [][LedgerNext]_vars
=============================================================================
