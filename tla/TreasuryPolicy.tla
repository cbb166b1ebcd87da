--------------------------- MODULE TreasuryPolicy ---------------------------
(***************************************************************************)
(* TreasuryPolicyBase and TreasuryPolicy: one payment budget over a Safe on *)
(* L1 and a Safe on L2.  Owners sign a payment with its Safe nonce, epoch   *)
(* and exact split; somebody executes it later.  The policy checks epoch,   *)
(* budget, recipient and the capacity of both Safes, then moves the L2 part *)
(* and the L1 part through the two allowance modules and the bridge.        *)
(*                                                                          *)
(* paySplit runs as one atomic entry over both chains: any failure reverts  *)
(* all of it, the Safe nonce included, so a refused payment is no step.     *)
(* The two chains have clocks of their own, in minutes, that only advance.  *)
(***************************************************************************)
EXTENDS TreasuryBridge, AllowanceModule, FiniteSetsExt

CONSTANTS
  PeriodMin,    \* PERIOD / 60: minutes in an epoch
  GlobalLimit,  \* GLOBAL_LIMIT: the budget of an epoch
  SafeLimit,    \* the allowance each Safe grants at deployment
  Settings,     \* the allowance settings owners may choose later
  Amounts,      \* amounts that are signed or moved
  Payees,       \* accounts that payments are addressed to
  StartTime,    \* both clocks when the model starts, an epoch boundary
  MaxTime,      \* bound on the clocks
  MaxNonce,     \* bound on each Safe's nonce
  MaxSigned     \* bound on the payments signed

Chains == {"L1", "L2"}
Epochs == 0..MaxTime
Minutes == 0..MaxTime

ASSUME PolicyAssumption ==
  /\ PeriodMin \in Nat \ {0}
  /\ {GlobalLimit, SafeLimit, MaxTime, MaxNonce, MaxSigned} \subseteq Nat
  /\ Amounts \subseteq Nat
  /\ Payees \subseteq L1Accounts \cup L2Accounts
  /\ Settings \subseteq [amount : Nat, reset : Nat \ {0}, base : Nat \ {0}]
  /\ StartTime \in PeriodMin..MaxTime
  /\ StartTime % PeriodMin = 0

(* What the owners sign: the paySplit arguments and the Safe transaction    *)
(* that carries them.  The destination chain is the payee's.                *)
Payments ==
  [source : Chains, nonce : Nat, to : Payees,
   amount : Nat, fromL1 : Nat, epoch : Epochs]

VARIABLES
  clock,      \* block.timestamp / 60, on each chain
  spent,      \* policy.spent, by epoch
  allowance,  \* the policy's allowance from each Safe
  nonce,      \* each Safe's transaction nonce
  signed,     \* payments enough owners have signed, executed or not
  executed,   \* history: payments that were executed
  drawn       \* history: what payments took from each Safe, by epoch

policyVars == <<clock, spent, allowance, nonce, signed, executed, drawn>>
vars == <<bridgeVars, policyVars>>

(* block.timestamp / PERIOD on L2, where the policy lives.                  *)
Epoch == clock["L2"] \div PeriodMin

Safe(c) == IF c = "L1" THEN "safeL1" ELSE "safeL2"
OnL1(p) == p.to \in L1Accounts
FromL2(p) == p.amount - p.fromL1
From(c, p) == IF c = "L1" THEN p.fromL1 ELSE FromL2(p)

Init ==
  /\ BridgeInit
  /\ clock = [c \in Chains |-> StartTime]
  /\ spent = [e \in Epochs |-> 0]
  /\ allowance = [c \in Chains |->
       [amount |-> SafeLimit, spent |-> 0,
        reset |-> PeriodMin, lastReset |-> StartTime]]
  /\ nonce = [c \in Chains |-> 0]
  /\ signed = {}
  /\ executed = {}
  /\ drawn = [c \in Chains |-> [e \in Epochs |-> 0]]

-----------------------------------------------------------------------------
(* The checks of _pay.                                                      *)

AmountValid(p) == 0 < p.amount /\ p.amount <= GlobalLimit /\ p.fromL1 <= p.amount

(* Fault: a stale epoch is accepted.                                        *)
EpochAnyFault(p) == p.epoch <= Epoch

EpochCurrent(p) == p.epoch = Epoch

(* Faults: the amount is left out of the check; the check is left out.      *)
WithinBudgetBeforeFault(p) == spent[Epoch] < GlobalLimit
WithinBudgetFault(p) == p.amount <= GlobalLimit

WithinBudget(p) == spent[Epoch] + p.amount <= GlobalLimit

(* Fault: system accounts can be paid.                                      *)
RecipientAnyFault(p) == p.to \in Accounts

(* The policy, its alias, both Safes and its own bridges are refused.       *)
SystemAccounts == {"policy", "alias", "safeL1", "safeL2", "bridgeL1"}
RecipientValid(p) == p.to \notin SystemAccounts

(* Fault: the period's length is checked, not where it starts.              *)
AlignedLengthFault(c) ==
  Effective(allowance[c], clock[c]).reset = PeriodMin

(* _remaining: the allowance runs over exactly the policy's epoch, by the   *)
(* clock of its own chain.                                                  *)
Aligned(c) ==
  LET a == Effective(allowance[c], clock[c])
  IN  a.reset = PeriodMin /\ a.lastReset = Epoch * PeriodMin

(* Fault: the Safe's balance is not looked at.                              *)
HasCapacityFault(c, n) == n <= Unspent(allowance[c], clock[c])

(* _capacity: a Safe's contribution fits its allowance and its balance.     *)
HasCapacity(c, n) ==
  n <= Unspent(allowance[c], clock[c]) /\ n <= bal[Safe(c)]

-----------------------------------------------------------------------------
(* The two legs of _pay, as the ledger they leave.                          *)

(* L2: straight to an L2 payee, or to the policy and out of the escrow.     *)
AfterL2Leg(b, p) ==
  LET n == FromL2(p) IN
  IF OnL1(p)
    THEN Released(Transferred(b, "safeL2", "policy", n),
                  "policy", "bridgeL1", p.to, n)
    ELSE Transferred(b, "safeL2", p.to, n)

(* L1: straight to an L1 payee, or to the policy's alias, which approves    *)
(* and pays the bridge.  The approval is used up in the same leg.           *)
AfterL1Leg(b, p) ==
  LET n == p.fromL1 IN
  IF OnL1(p)
    THEN Transferred(b, "safeL1", p.to, n)
    ELSE Minted(Transferred(b, "safeL1", "alias", n),
                "alias", "bridgeL1", p.to, n)

PayLedger(p) ==
  LET b == IF FromL2(p) > 0 THEN AfterL2Leg(bal, p) ELSE bal
  IN  IF p.fromL1 > 0 THEN AfterL1Leg(b, p) ELSE b

(* Bridging an L1 contribution to L2 takes a lock nonce.                    *)
Locks(p) == p.fromL1 > 0 /\ ~OnL1(p)

Withdraws(p) == FromL2(p) > 0 /\ OnL1(p)

(* What the bridges themselves demand of the two legs: bridgeL2 has been    *)
(* found to point at bridgeL1, but whether that one points back shows only  *)
(* when it is called.                                                       *)
BridgeAccepts(p) ==
  /\ Locks(p) => CanLock(Transferred(bal, "safeL1", "alias", p.fromL1),
                         "bridgeL2", "bridgeL1", "alias", p.fromL1)
  /\ Withdraws(p) => /\ Paired("bridgeL2", "bridgeL1")
                     /\ FromL2(p) <= bal["bridgeL1"]

(* ResidualBalance: no leg leaves tokens behind or uses up tokens that      *)
(* somebody else left on the policy or its alias.                           *)
NoResidual(b) == b["policy"] = bal["policy"] /\ b["alias"] = bal["alias"]

-----------------------------------------------------------------------------
Tick(c) ==
  /\ clock[c] < MaxTime
  /\ clock' = [clock EXCEPT ![c] = @ + 1]
  /\ UNCHANGED <<bridgeVars, spent, allowance, nonce, signed, executed, drawn>>

(* Enough owners sign a payment for the Safe's next transaction and the     *)
(* epoch they see.  Rival payments may be signed for the same nonce.        *)
Sign(p) ==
  /\ p.nonce = nonce[p.source]
  /\ p.epoch = Epoch
  /\ p \notin signed
  /\ Cardinality(signed) < MaxSigned
  /\ signed' = signed \cup {p}
  /\ UNCHANGED <<bridgeVars, clock, spent, allowance, nonce, executed, drawn>>

(* A Safe executes one of its own transactions: its nonce is used up.       *)
SafeTransaction(c) ==
  /\ nonce[c] < MaxNonce
  /\ nonce' = [nonce EXCEPT ![c] = @ + 1]

(* A signed payment reaches paySplit through its Safe, at any later time.   *)
Pay(p) ==
  /\ p \in signed
  /\ p.nonce = nonce[p.source]
  /\ AmountValid(p)
  /\ EpochCurrent(p)
  /\ WithinBudget(p)
  /\ peer["bridgeL2"] = "bridgeL1"
  /\ RecipientValid(p)
  /\ \A c \in Chains : Aligned(c) /\ HasCapacity(c, From(c, p))
  /\ BridgeAccepts(p)
  /\ NoResidual(PayLedger(p))
  /\ SafeTransaction(p.source)
  /\ spent' = [spent EXCEPT ![Epoch] = @ + p.amount]
  /\ allowance' = [c \in Chains |->
       IF From(c, p) > 0 THEN Charged(allowance[c], From(c, p), clock[c])
                         ELSE allowance[c]]
  /\ bal' = PayLedger(p)
  /\ IF Locks(p) THEN ConsumeDepositNonce("bridgeL2", "bridgeL1") ELSE KeepDepositNonce
  /\ executed' = executed \cup {p}
  /\ drawn' = [c \in Chains |->
       [drawn[c] EXCEPT ![Epoch] = @ + (bal[Safe(c)] - bal'[Safe(c)])]]
  /\ UNCHANGED <<peerVars, clock, signed>>

-----------------------------------------------------------------------------
(* Administration by the owners, which the policy does not restrict.        *)

(* setAllowance through a Safe.                                             *)
Reconfigure(c, s) ==
  /\ s.base <= clock[c]
  /\ SafeTransaction(c)
  /\ allowance' = [allowance EXCEPT ![c] =
       Reconfigured(@, s.amount, s.reset, s.base, clock[c])]
  /\ UNCHANGED <<bridgeVars, clock, spent, signed, executed, drawn>>

(* A direct transfer by the owners, outside the policy.                     *)
OwnerTransfer(c, n) ==
  /\ n <= bal[Safe(c)]
  /\ SafeTransaction(c)
  /\ bal' = Transferred(bal, Safe(c),
                        IF c = "L1" THEN "outsideL1" ELSE "outsideL2", n)
  /\ KeepDepositNonce
  /\ UNCHANGED <<peerVars, clock, spent, allowance, signed, executed, drawn>>

(* Owners reject a payment: an empty Safe transaction takes its nonce.      *)
Reject(c) ==
  /\ SafeTransaction(c)
  /\ UNCHANGED <<bridgeVars, clock, spent, allowance, signed, executed, drawn>>

(* Anybody else, on the bridges and the tokens.                             *)
ThirdParty ==
  /\ \E n \in Amounts \ {0}, to \in Accounts :
       \/ \E x \in L2Bridges, y \in L1Bridges :
            \/ BridgeFromL1(x, y, n, to)
            \/ BridgeDeposit(x, y, n, to)
            \/ BridgeWithdraw(x, y, n, to)
       \/ OutsideTransfer(n, to)
  /\ UNCHANGED policyVars

(* The admins of the bridges named, at any time.                            *)
BridgeAdmin(bridges) ==
  /\ \E b \in bridges : \E p \in Opposite(b) \cup {NoPeer} : SetPeer(b, p)
  /\ UNCHANGED policyVars

SignSomething(sources) ==
  \E s \in sources, to \in Payees, n \in Amounts, f \in Amounts :
    Sign([source |-> s, nonce |-> nonce[s], to |-> to,
          amount |-> n, fromL1 |-> f, epoch |-> Epoch])

Next ==
  \/ \E c \in Chains : Tick(c)
  \/ SignSomething(Chains)
  \/ \E p \in signed : Pay(p)
  \/ \E c \in Chains, s \in Settings : Reconfigure(c, s)
  \/ \E c \in Chains, n \in Amounts : n > 0 /\ OwnerTransfer(c, n)
  \/ \E c \in Chains : Reject(c)
  \/ ThirdParty
  \/ BridgeAdmin(Bridges)

Spec == Init /\ [][Next]_vars

-----------------------------------------------------------------------------
(* Properties                                                               *)

TypeOK ==
  /\ bal \in [Accounts -> Nat]
  /\ nextDepositNonce \in [L2Bridges -> Nat]
  /\ lockedDeposits \in [L1Bridges -> SUBSET Nat]
  /\ peer \in [Bridges -> Bridges \cup {NoPeer}]
  /\ repaired \in BOOLEAN
  /\ clock \in [Chains -> Minutes]
  /\ spent \in [Epochs -> Nat]
  /\ allowance \in [Chains -> Allowances]
  /\ nonce \in [Chains -> Nat]
  /\ signed \subseteq Payments
  /\ executed \subseteq signed
  /\ drawn \in [Chains -> [Epochs -> Nat]]

(* GLOBAL_LIMIT "bounds both a payment and total spending per epoch"        *)
(* (contracts/README.md): what really left the two Safes through the policy *)
(* in one epoch, not only what its counter says, stays within one budget,   *)
(* whatever the two clocks, the bridge and the owners' settings do.         *)
GlobalBudget ==
  \A e \in Epochs :
    /\ drawn["L1"][e] + drawn["L2"][e] = spent[e]
    /\ spent[e] <= GlobalLimit

(* Of the payments signed for one nonce of a Safe, at most one is paid.     *)
OnePerNonce ==
  \A p, q \in executed :
    (p.source = q.source /\ p.nonce = q.nonce) => p = q

(* A signed payment is charged once, in the epoch its owners signed for,    *)
(* with the split they signed, and two rivals for one Safe nonce are never  *)
(* both paid (expectedEpoch and fromL1 of paySplit, the Safe's nonce).      *)
ExecutedOnce ==
  /\ \A c \in Chains, e \in Epochs :
       drawn[c][e] = MapThenSumSet(LAMBDA p : From(c, p),
                                   {p \in executed : p.epoch = e})
  /\ OnePerNonce

(* Wrapped USDC is always backed by USDC locked in the L1 bridges, through  *)
(* every mix of payments, deposits and withdrawals and whatever peers the   *)
(* admins choose (bridgeFromL1, lockForL2, the legs of _pay).  One bridge's *)
(* escrow covers its partner's token only as long as the pair is used as a  *)
(* pair: what was locked in one escrow can be released from another after a *)
(* change of peers, which is why shared bridges are sealed.                 *)
Backing ==
  /\ Escrow(bal) >= AllWrapped(bal)
  /\ ~repaired => bal["bridgeL1"] >= WrappedSupply(bal)

(* USDC is neither made nor lost: a payment only moves it between accounts. *)
Conserved == CanonicalTotal(bal) = CanonicalTotal(InitialBalances)

(* A lock nonce is used once, on both chains (nextDepositNonce,             *)
(* lockedDeposits): every deposit of an L2 bridge has a lock of its own in  *)
(* one of the L1 bridges, even when bridges that have both been used before *)
(* are made a pair and their nonces overlap; and no nonce is locked before  *)
(* some bridge has come to it.  Overlapping nonces stop such a pair with    *)
(* DepositAlreadyLocked; a pair that was never changed is never stopped     *)
(* ("Use a fresh, configured pair").                                        *)
NoncesAgree ==
  /\ Cardinality(lockedDeposits["bridgeL1"]) + Cardinality(lockedDeposits["otherL1"])
       = nextDepositNonce["bridgeL2"] + nextDepositNonce["otherL2"]
  /\ \A y \in L1Bridges : \A n \in lockedDeposits[y] :
       \E x \in L2Bridges : n < nextDepositNonce[x]
  /\ ~repaired => nextDepositNonce["bridgeL2"] \notin lockedDeposits["bridgeL1"]

(* A payment debits each Safe by exactly its signed contribution and        *)
(* credits its recipient by the whole amount, on one chain; the policy and  *)
(* its alias hold after it what they held before (paySplit, "never          *)
(* rebalance a signed allocation").                                         *)
DeliversExactly ==
  [][\A p \in executed' \ executed :
       /\ \A c \in Chains : bal[Safe(c)] - bal'[Safe(c)] = From(c, p)
       /\ bal'[p.to] = bal[p.to] + p.amount
       /\ \A a \in (Outside \ {p.to}) \cup {"alias", "policy"} :
            bal'[a] = bal[a]]_vars

(* Every payment leaves each Safe's contribution to the policy's current    *)
(* epoch within the allowance that Safe grants at that moment, although the *)
(* allowance is reset by another clock than the epoch's and the owners      *)
(* change it in between (UnalignedAllowance of _remaining).                 *)
WithinSafeAllowance ==
  [][\A c \in Chains, e \in Epochs :
       drawn'[c][e] > drawn[c][e] => drawn'[c][e] <= allowance[c].amount]_vars

(* The settings the client makes: periods of the policy's length, counted   *)
(* from an epoch boundary (setAllowance(delegate, token, amount, 10, 10)).  *)
(* Owners who leave this schedule and return to it inside an epoch can have *)
(* the allowance reset early; WithinSafeAllowance holds for these settings. *)
SettingsAligned ==
  \A s \in Settings : s.reset = PeriodMin /\ s.base % PeriodMin = 0

(* Why: an allowance accounts for everything drawn from its Safe in the     *)
(* epoch that its stored period is, and nothing was drawn in a later one.   *)
AllowanceCovers ==
  \A c \in Chains :
    LET a == allowance[c] IN
    /\ a.reset = PeriodMin
    /\ a.lastReset % PeriodMin = 0
    /\ a.lastReset <= clock[c]
    /\ \A e \in Epochs :
         /\ e * PeriodMin > a.lastReset => drawn[c][e] = 0
         /\ e * PeriodMin = a.lastReset => drawn[c][e] <= a.spent

(* The policy implements one budget per epoch: what both Safes pay out      *)
(* together follows SpendingBudget, an ended epoch is never charged again.  *)
Budget == INSTANCE SpendingBudget WITH
  Limit     <- GlobalLimit,
  AllEpochs <- Epochs,
  epoch     <- Epoch,
  out       <- [e \in Epochs |-> drawn["L1"][e] + drawn["L2"][e]]

ImplementsBudget == Budget!Spec
=============================================================================
