------------------------ MODULE TreasuryPolicyProofs ------------------------
(***************************************************************************)
(* Proofs about TreasuryPolicy, for every value of its constants.           *)
(***************************************************************************)
EXTENDS TreasuryPolicy, LeastCounterexample, TLAPS

-----------------------------------------------------------------------------
(* Arithmetic of periods.                                                   *)

(* Division by a positive period: quotient and remainder.                   *)
LEMMA DivMod ==
  ASSUME NEW P \in Nat \ {0}, NEW n \in Int
  PROVE  /\ n \div P \in Int
         /\ n % P \in 0..P-1
         /\ n = (n \div P) * P + (n % P)
  OBVIOUS

(* Quotient and remainder are unique.                                       *)
LEMMA ModUnique ==
  ASSUME NEW P \in Nat \ {0}, NEW n \in Int, NEW q \in Int,
         NEW r \in 0..P-1, n = q * P + r
  PROVE  n % P = r /\ n \div P = q
  OBVIOUS

(* Division by a positive period stays within the dividend.                 *)
LEMMA DivBound ==
  ASSUME NEW n \in Nat, NEW d \in Nat \ {0}
  PROVE  n \div d \in 0..n
  OBVIOUS

(* Division by a fixed period is monotone: epochs follow the clock.         *)
LEMMA DivMonotone ==
  ASSUME NEW n \in Nat, NEW d \in Nat \ {0}
  PROVE  (n + 1) \div d >= n \div d
  OBVIOUS

(* The remainder of a natural number is not above it.                       *)
LEMMA ModBound ==
  ASSUME NEW P \in Nat \ {0}, NEW n \in Nat
  PROVE  n % P <= n
<1>1. n = (n \div P) * P + (n % P)
  BY DivMod
<1>2. n \div P \in Nat
  BY DivBound
<1>3. (n \div P) * P \in Nat
  BY <1>2
<1>4. n % P \in Int
  BY DivMod
<1> HIDE <1>2
<1> QED
  BY <1>1, <1>3, <1>4

(* Shifting by whole periods keeps the remainder.                           *)
LEMMA ModShift ==
  ASSUME NEW P \in Nat \ {0}, NEW n \in Int, NEW k \in Int
  PROVE  (n - k * P) % P = n % P
<1>1. PICK q \in Int, r \in 0..P-1 : n = q * P + r
  BY DivMod
<1>2. n % P = r
  BY <1>1, ModUnique
<1>3. n - k * P = (q - k) * P + r
  BY <1>1
<1>4. n - k * P \in Int /\ q - k \in Int
  OBVIOUS
<1>5. (n - k * P) % P = r
  BY <1>3, <1>4, ModUnique
<1> QED
  BY <1>2, <1>5

(* A period starts at or before now, and less than a period before now.     *)
LEMMA PeriodStartBound ==
  ASSUME NEW now \in Int, NEW base \in Int, NEW reset \in Nat \ {0}
  PROVE  /\ PeriodStart(now, base, reset) \in Int
         /\ PeriodStart(now, base, reset) <= now
         /\ PeriodStart(now, base, reset) > now - reset
  BY DEF PeriodStart

(* A base in the past gives a period start that is not before it.           *)
LEMMA PeriodStartNat ==
  ASSUME NEW now \in Nat, NEW base \in Nat, NEW reset \in Nat \ {0},
         base <= now
  PROVE  PeriodStart(now, base, reset) \in Nat
<1>1. now - base \in Nat
  OBVIOUS
<1>2. (now - base) % reset <= now - base
  BY <1>1, ModBound
<1> QED
  BY <1>2, PeriodStartBound DEF PeriodStart

-----------------------------------------------------------------------------
(* The allowance operators.                                                 *)

(* Loading an allowance keeps its type, ceiling and period, and never moves *)
(* its period start back.                                                   *)
LEMMA EffectiveType ==
  ASSUME NEW a \in Allowances, NEW now \in Nat
  PROVE  /\ Effective(a, now) \in Allowances
         /\ Effective(a, now).amount = a.amount
         /\ Effective(a, now).lastReset >= a.lastReset
         /\ ResetDue(a, now) => /\ Effective(a, now).spent = 0
                                /\ Effective(a, now).lastReset > a.lastReset
         /\ ~ResetDue(a, now) => Effective(a, now) = a
<1> DEFINE s == PeriodStart(now, a.lastReset, a.reset)
<1>1. a.amount \in Nat /\ a.spent \in Nat /\ a.reset \in Nat \ {0}
      /\ a.lastReset \in Nat
  BY DEF Allowances
<1>2. s \in Int /\ s > now - a.reset
  <2>1. now \in Int /\ a.lastReset \in Int
    BY <1>1
  <2> QED
    BY <1>1, <2>1, PeriodStartBound
<1> HIDE DEF s
<1>3. CASE ResetDue(a, now)
  <2>1. s > a.lastReset
    BY <1>1, <1>2, <1>3 DEF ResetDue
  <2>2. Effective(a, now) = [a EXCEPT !.spent = 0, !.lastReset = s]
    BY <1>3 DEF Effective, s
  <2>3. s \in Nat
    BY <1>1, <1>2, <2>1
  <2>4. Effective(a, now) = [amount |-> a.amount, spent |-> 0,
                             reset |-> a.reset, lastReset |-> s]
    BY <2>2 DEF Allowances
  <2> QED
    BY <1>1, <1>3, <2>1, <2>3, <2>4 DEF Allowances
<1>4. CASE ~ResetDue(a, now)
  BY <1>1, <1>4 DEF Effective
<1> QED
  BY <1>3, <1>4

(* A charge is made on the effective record.                                *)
LEMMA ChargedType ==
  ASSUME NEW a \in Allowances, NEW now \in Nat, NEW n \in Nat
  PROVE  /\ Charged(a, n, now) \in Allowances
         /\ Charged(a, n, now).amount = a.amount
         /\ Charged(a, n, now).spent = Effective(a, now).spent + n
         /\ Charged(a, n, now).lastReset = Effective(a, now).lastReset
  BY EffectiveType DEF Charged, Allowances

(* setAllowance from a base in the past.                                    *)
LEMMA ReconfiguredType ==
  ASSUME NEW a \in Allowances, NEW now \in Nat, NEW amount \in Nat,
         NEW reset \in Nat \ {0}, NEW base \in Nat, base <= now
  PROVE  Reconfigured(a, amount, reset, base, now) \in Allowances
  BY EffectiveType, PeriodStartNat DEF Reconfigured, Allowances

(* A contribution within capacity keeps the charge within the ceiling.      *)
LEMMA CapacityBound ==
  ASSUME NEW a \in Allowances, NEW now \in Nat, NEW n \in Nat,
         n > 0, n <= Unspent(a, now)
  PROVE  Effective(a, now).spent + n <= a.amount
<1> DEFINE e == Effective(a, now)
<1>1. e \in Allowances /\ e.amount = a.amount
  BY EffectiveType
<1>2. e.spent \in Nat /\ e.amount \in Nat
  BY <1>1 DEF Allowances
<1>3. Unspent(a, now) = IF e.spent < e.amount THEN e.amount - e.spent ELSE 0
  BY DEF Unspent
<1> HIDE DEF e
<1>4. e.spent + n <= a.amount
  BY <1>1, <1>2, <1>3
<1> QED
  BY <1>4 DEF e

-----------------------------------------------------------------------------
(* The ledger a payment leaves.                                             *)

(* The epoch is one of the model's epochs.                                  *)
LEMMA EpochType ==
  ASSUME clock \in [Chains -> Minutes]
  PROVE  Epoch \in Epochs
<1>1. clock["L2"] \in Nat /\ clock["L2"] <= MaxTime /\ MaxTime \in Nat
  BY PolicyAssumption DEF Chains, Minutes
<1>2. clock["L2"] \div PeriodMin \in 0..clock["L2"]
  BY <1>1, DivBound, PolicyAssumption
<1> QED
  BY <1>1, <1>2 DEF Epoch, Epochs

(* A payee is not one of the payment's own accounts.                        *)
LEMMA PayeeApart ==
  ASSUME NEW p \in Payments, RecipientValid(p)
  PROVE  /\ p.to \in {"outsideL1", "outsideL2", "otherL1"}
         /\ OnL1(p) <=> p.to # "outsideL2"
<1>1. p.to \in L1Accounts \cup L2Accounts
  BY PolicyAssumption DEF Payments
<1> QED
  BY <1>1 DEF RecipientValid, SystemAccounts, OnL1, L1Accounts, L2Accounts

(* The two legs together: each Safe gives its signed part, the recipient    *)
(* gets the whole, the escrow of the pair follows the wrapped supply, and   *)
(* nobody else's balance changes.                                           *)
LEMMA PayLedgerEffect ==
  ASSUME bal \in [Accounts -> Nat],
         NEW p \in Payments,
         AmountValid(p), RecipientValid(p), BridgeAccepts(p),
         \A c \in Chains : HasCapacity(c, From(c, p))
  PROVE  /\ PayLedger(p) \in [Accounts -> Nat]
         /\ PayLedger(p)["safeL1"] = bal["safeL1"] - p.fromL1
         /\ PayLedger(p)["safeL2"] = bal["safeL2"] - FromL2(p)
         /\ PayLedger(p)[p.to] = bal[p.to] + p.amount
         /\ PayLedger(p)["bridgeL1"] = bal["bridgeL1"] +
              (IF OnL1(p) THEN 0 - FromL2(p) ELSE p.fromL1)
         /\ \A a \in Accounts \ {"safeL1", "safeL2", "bridgeL1", p.to} :
              PayLedger(p)[a] = bal[a]
<1>1. /\ p.amount \in Nat /\ p.fromL1 \in Nat /\ p.fromL1 <= p.amount
      /\ FromL2(p) \in Nat /\ FromL2(p) = p.amount - p.fromL1
  BY DEF Payments, AmountValid, FromL2
<1>2. p.fromL1 <= bal["safeL1"] /\ FromL2(p) <= bal["safeL2"]
  BY DEF HasCapacity, From, Safe, Chains
<1>3. /\ p.to \in {"outsideL1", "outsideL2", "otherL1"}
      /\ OnL1(p) <=> p.to # "outsideL2"
  BY PayeeApart
<1> DEFINE b == IF FromL2(p) > 0 THEN AfterL2Leg(bal, p) ELSE bal
<1>4. PayLedger(p) = IF p.fromL1 > 0 THEN AfterL1Leg(b, p) ELSE b
  BY DEF PayLedger
<1>5. CASE OnL1(p)
  <2>1. FromL2(p) > 0 => FromL2(p) <= bal["bridgeL1"]
    BY <1>5 DEF BridgeAccepts, Withdraws
  <2>2. p.to \in {"outsideL1", "otherL1"}
    BY <1>3, <1>5
  <2>3. /\ b \in [Accounts -> Nat]
        /\ b["safeL2"] = bal["safeL2"] - FromL2(p)
        /\ b["bridgeL1"] = bal["bridgeL1"] - FromL2(p)
        /\ b[p.to] = bal[p.to] + FromL2(p)
        /\ \A a \in Accounts \ {"safeL2", "bridgeL1", p.to} : b[a] = bal[a]
    <3>1. CASE FromL2(p) > 0
      <4> DEFINE n == FromL2(p)
                 t == [bal EXCEPT !["safeL2"] = @ - n, !["policy"] = @ + n]
      <4>1. b = Released(t, "policy", "bridgeL1", p.to, n)
        BY <1>5, <3>1 DEF AfterL2Leg, Transferred
      <4>2. /\ t \in [Accounts -> Nat]
            /\ t["safeL2"] = bal["safeL2"] - n /\ t["policy"] = bal["policy"] + n
            /\ \A a \in Accounts \ {"safeL2", "policy"} : t[a] = bal[a]
        BY <1>1, <1>2 DEF Accounts, L1Accounts, L2Accounts
      <4>3. n \in Nat /\ n <= bal["bridgeL1"]
        BY <1>1, <2>1, <3>1
      <4>4. bal["policy"] \in Nat /\ bal["bridgeL1"] \in Nat
        BY DEF Accounts, L1Accounts, L2Accounts
      <4> HIDE DEF b, t, n
      <4>5. /\ b \in [Accounts -> Nat]
            /\ b["policy"] = bal["policy"]
            /\ b["bridgeL1"] = t["bridgeL1"] - n /\ b[p.to] = t[p.to] + n
            /\ \A a \in Accounts \ {"policy", "bridgeL1", p.to} : b[a] = t[a]
        BY <2>2, <4>1, <4>2, <4>3, <4>4
           DEF Released, Accounts, L1Accounts, L2Accounts
      <4> QED
        BY <2>2, <4>2, <4>5 DEF n, Accounts, L1Accounts, L2Accounts
    <3>2. CASE FromL2(p) = 0
      BY <1>1, <2>2, <3>2 DEF Accounts, L1Accounts, L2Accounts
    <3> QED
      BY <1>1, <3>1, <3>2
  <2> HIDE DEF b
  <2>4. CASE p.fromL1 > 0
    <3>1. PayLedger(p) = [b EXCEPT !["safeL1"] = @ - p.fromL1,
                                   ![p.to] = @ + p.fromL1]
      BY <1>4, <1>5, <2>4 DEF AfterL1Leg, Transferred
    <3> QED
      BY <1>1, <1>2, <1>5, <2>2, <2>3, <3>1
         DEF Accounts, L1Accounts, L2Accounts
  <2>5. CASE p.fromL1 = 0
    <3>1. PayLedger(p) = b
      BY <1>4, <2>5
    <3> QED
      BY <1>1, <1>5, <2>2, <2>3, <2>5, <3>1
         DEF Accounts, L1Accounts, L2Accounts
  <2> QED
    BY <1>1, <2>4, <2>5
<1>6. CASE ~OnL1(p)
  <2>1. p.to = "outsideL2"
    BY <1>3, <1>6
  <2>2. /\ b \in [Accounts -> Nat]
        /\ b["safeL2"] = bal["safeL2"] - FromL2(p)
        /\ b["outsideL2"] = bal["outsideL2"] + FromL2(p)
        /\ \A a \in Accounts \ {"safeL2", "outsideL2"} : b[a] = bal[a]
    <3>1. CASE FromL2(p) > 0
      BY <1>1, <1>2, <1>6, <2>1, <3>1
         DEF AfterL2Leg, Transferred, Accounts, L1Accounts, L2Accounts
    <3>2. CASE FromL2(p) = 0
      BY <1>1, <3>2 DEF Accounts, L1Accounts, L2Accounts
    <3> QED
      BY <1>1, <3>1, <3>2
  <2> HIDE DEF b
  <2>3. CASE p.fromL1 > 0
    <3>1. PayLedger(p) = Minted([b EXCEPT !["safeL1"] = @ - p.fromL1,
                                          !["alias"] = @ + p.fromL1],
                                "alias", "bridgeL1", "outsideL2", p.fromL1)
      BY <1>4, <1>6, <2>1, <2>3 DEF AfterL1Leg, Transferred
    <3> QED
      BY <1>1, <1>2, <1>6, <2>1, <2>2, <3>1
         DEF Minted, Accounts, L1Accounts, L2Accounts
  <2>4. CASE p.fromL1 = 0
    <3>1. PayLedger(p) = b
      BY <1>4, <2>4
    <3> QED
      BY <1>1, <1>6, <2>1, <2>2, <2>4, <3>1
         DEF Accounts, L1Accounts, L2Accounts
  <2> QED
    BY <1>1, <2>3, <2>4
<1> QED
  BY <1>5, <1>6

(* A payment moves the pair's escrow with the pair's wrapped supply, leaves *)
(* the other wrapped token alone and keeps the amount of canonical USDC.    *)
LEMMA PayLedgerBacked ==
  ASSUME bal \in [Accounts -> Nat],
         NEW p \in Payments,
         AmountValid(p), RecipientValid(p), BridgeAccepts(p),
         \A c \in Chains : HasCapacity(c, From(c, p))
  PROVE  /\ PayLedger(p)["bridgeL1"] - WrappedSupply(PayLedger(p))
              = bal["bridgeL1"] - WrappedSupply(bal)
         /\ PayLedger(p)["otherL1"] >= bal["otherL1"]
         /\ PayLedger(p)["otherL2"] = bal["otherL2"]
         /\ CanonicalTotal(PayLedger(p)) = CanonicalTotal(bal)
<1>1. /\ p.amount \in Nat /\ p.fromL1 \in Nat
      /\ FromL2(p) \in Nat /\ FromL2(p) = p.amount - p.fromL1
  BY DEF Payments, AmountValid, FromL2
<1>2. /\ p.to \in {"outsideL1", "outsideL2", "otherL1"}
      /\ OnL1(p) <=> p.to # "outsideL2"
  BY PayeeApart
<1> DEFINE b == PayLedger(p)
<1>3. /\ b \in [Accounts -> Nat]
      /\ b["safeL1"] = bal["safeL1"] - p.fromL1
      /\ b["safeL2"] = bal["safeL2"] - FromL2(p)
      /\ b[p.to] = bal[p.to] + p.amount
      /\ b["bridgeL1"] = bal["bridgeL1"] +
           (IF OnL1(p) THEN 0 - FromL2(p) ELSE p.fromL1)
      /\ \A a \in Accounts \ {"safeL1", "safeL2", "bridgeL1", p.to} : b[a] = bal[a]
  BY PayLedgerEffect
<1> HIDE DEF b
<1>4. CASE p.to = "outsideL2"
  BY <1>1, <1>2, <1>3, <1>4
     DEF b, WrappedSupply, CanonicalTotal, Escrow, Accounts, L1Accounts, L2Accounts
<1>5. CASE p.to = "outsideL1"
  BY <1>1, <1>2, <1>3, <1>5
     DEF b, WrappedSupply, CanonicalTotal, Escrow, Accounts, L1Accounts, L2Accounts
<1>6. CASE p.to = "otherL1"
  BY <1>1, <1>2, <1>3, <1>6
     DEF b, WrappedSupply, CanonicalTotal, Escrow, Accounts, L1Accounts, L2Accounts
<1> QED
  BY <1>2, <1>4, <1>5, <1>6

-----------------------------------------------------------------------------
(* Type correctness.                                                        *)

(* Settings have the types of an allowance.                                 *)
LEMMA SettingType ==
  ASSUME NEW s \in Settings
  PROVE  s.amount \in Nat /\ s.reset \in Nat \ {0} /\ s.base \in Nat
  BY PolicyAssumption

(* What a payment step does, by variable; its ledger is PayLedger(p).       *)
LEMMA PayTyped ==
  ASSUME TypeOK, NEW p \in signed, Pay(p)
  PROVE  /\ p \in Payments /\ Epoch \in Epochs
         /\ \A c \in Chains : From(c, p) \in Nat
         /\ bal' \in [Accounts -> Nat]
         /\ bal'["safeL1"] = bal["safeL1"] - From("L1", p)
         /\ bal'["safeL2"] = bal["safeL2"] - From("L2", p)
         /\ drawn' = [c \in Chains |->
              [drawn[c] EXCEPT ![Epoch] = drawn[c][Epoch] + From(c, p)]]
<1>1. p \in Payments /\ Epoch \in Epochs
  BY EpochType DEF TypeOK
<1>2. \A c \in Chains : From(c, p) \in Nat
  BY <1>1 DEF From, FromL2, Payments, Pay, AmountValid
<1>3. /\ bal' \in [Accounts -> Nat]
      /\ bal'["safeL1"] = bal["safeL1"] - From("L1", p)
      /\ bal'["safeL2"] = bal["safeL2"] - From("L2", p)
  BY <1>1, PayLedgerEffect DEF Pay, TypeOK, From
<1>4. \A c \in Chains : bal[Safe(c)] - bal'[Safe(c)] = From(c, p)
  <2>1. bal["safeL1"] \in Nat /\ bal["safeL2"] \in Nat
    BY DEF TypeOK, Accounts, L1Accounts, L2Accounts
  <2> QED
    BY <1>2, <1>3, <2>1 DEF Safe, Chains
<1>5. drawn' = [c \in Chains |->
        [drawn[c] EXCEPT ![Epoch] = drawn[c][Epoch] + From(c, p)]]
  BY <1>4 DEF Pay
<1> QED
  BY <1>1, <1>2, <1>3, <1>5

(* The model starts well typed.                                             *)
LEMMA InitType == Init => TypeOK
<1> SUFFICES ASSUME Init PROVE TypeOK
  OBVIOUS
<1>1. StartTime \in Minutes /\ StartTime \in Nat
  BY PolicyAssumption DEF Minutes
<1>2. [amount |-> SafeLimit, spent |-> 0, reset |-> PeriodMin,
       lastReset |-> StartTime] \in Allowances
  BY <1>1, PolicyAssumption DEF Allowances
<1> QED
  BY <1>1, <1>2, BridgeAssumption DEF Init, BridgeInit, TypeOK

(* Taking a nonce, or none, keeps the type of the nonces.                   *)
LEMMA NoncesType ==
  ASSUME TypeOK,
         NEW x \in L2Bridges, NEW y \in L1Bridges,
         ConsumeDepositNonce(x, y) \/ KeepDepositNonce
  PROVE  /\ nextDepositNonce' \in [L2Bridges -> Nat]
         /\ lockedDeposits' \in [L1Bridges -> SUBSET Nat]
<1>1. /\ nextDepositNonce \in [L2Bridges -> Nat]
      /\ lockedDeposits \in [L1Bridges -> SUBSET Nat]
  BY DEF TypeOK
<1>2. CASE ConsumeDepositNonce(x, y)
  <2>1. nextDepositNonce[x] \in Nat /\ lockedDeposits[y] \subseteq Nat
    BY <1>1
  <2> QED
    BY <1>1, <1>2, <2>1 DEF ConsumeDepositNonce
<1>3. CASE KeepDepositNonce
  BY <1>1, <1>3 DEF KeepDepositNonce
<1> QED
  BY <1>2, <1>3

(* The types of the ledger alone.                                           *)
LedgerType ==
  /\ bal \in [Accounts -> Nat]
  /\ nextDepositNonce \in [L2Bridges -> Nat]
  /\ lockedDeposits \in [L1Bridges -> SUBSET Nat]

(* A crossing by a third party keeps the ledger's type.                     *)
LEMMA CrossingType ==
  ASSUME TypeOK, NEW n \in Nat, NEW to \in Accounts,
         NEW x \in L2Bridges, NEW y \in L1Bridges,
         \/ BridgeFromL1(x, y, n, to)
         \/ BridgeDeposit(x, y, n, to)
         \/ BridgeWithdraw(x, y, n, to)
  PROVE  LedgerType' /\ UNCHANGED peerVars
<1>1. /\ bal \in [Accounts -> Nat]
      /\ y \in {"bridgeL1", "otherL1"} /\ x \in {"bridgeL2", "otherL2"}
  BY DEF TypeOK, L1Bridges, L2Bridges
<1>2. /\ ConsumeDepositNonce(x, y) \/ KeepDepositNonce
      /\ UNCHANGED peerVars
  BY DEF BridgeFromL1, BridgeDeposit, BridgeWithdraw
<1>3. /\ nextDepositNonce' \in [L2Bridges -> Nat]
      /\ lockedDeposits' \in [L1Bridges -> SUBSET Nat]
  BY <1>2, NoncesType
<1>4. CASE BridgeFromL1(x, y, n, to) \/ BridgeDeposit(x, y, n, to)
  <2>1. /\ n <= bal["outsideL1"]
        /\ bal' = Minted(bal, "outsideL1", y, to, n)
    BY <1>4 DEF BridgeFromL1, CanLock, BridgeDeposit
  <2>2. bal' \in [Accounts -> Nat]
    BY <1>1, <2>1 DEF Minted, Accounts, L1Accounts, L2Accounts
  <2> QED
    BY <1>2, <1>3, <2>2 DEF LedgerType
<1>5. CASE BridgeWithdraw(x, y, n, to)
  <2>1. /\ n <= bal[Stranger(x)] /\ n <= bal[y]
        /\ bal' = Released(bal, Stranger(x), y, to, n)
    BY <1>5 DEF BridgeWithdraw
  <2>2. Stranger(x) \in {"outsideL2", "otherL2"}
    BY DEF Stranger
  <2>3. bal' \in [Accounts -> Nat]
    BY <1>1, <2>1, <2>2 DEF Released, Accounts, L1Accounts, L2Accounts
  <2> QED
    BY <1>2, <1>3, <2>3 DEF LedgerType
<1> QED
  BY <1>4, <1>5

(* Every third-party step keeps the types.                                  *)
LEMMA ThirdPartyType == TypeOK /\ ThirdParty => TypeOK'
<1> SUFFICES ASSUME TypeOK, ThirdParty PROVE TypeOK'
  OBVIOUS
<1>1. UNCHANGED policyVars /\ Amounts \subseteq Nat
  BY PolicyAssumption DEF ThirdParty
<1>2. PICK n \in Amounts \ {0}, to \in Accounts :
        \/ \E x \in L2Bridges, y \in L1Bridges :
             \/ BridgeFromL1(x, y, n, to)
             \/ BridgeDeposit(x, y, n, to)
             \/ BridgeWithdraw(x, y, n, to)
        \/ OutsideTransfer(n, to)
  BY DEF ThirdParty
<1>3. n \in Nat
  BY <1>1, <1>2
<1>4. LedgerType' /\ UNCHANGED peerVars
  <2>1. CASE OutsideTransfer(n, to)
    BY <1>3, <2>1
       DEF OutsideTransfer, Transferred, KeepDepositNonce, TypeOK, LedgerType,
           Accounts, L1Accounts, L2Accounts, Outside
  <2> QED
    BY <1>2, <1>3, <2>1, CrossingType
<1> QED
  BY <1>1, <1>4 DEF LedgerType, peerVars, policyVars, TypeOK

(* So does a change of peers.                                               *)
LEMMA BridgeAdminType == TypeOK /\ BridgeAdmin(Bridges) => TypeOK'
<1> SUFFICES ASSUME TypeOK, BridgeAdmin(Bridges) PROVE TypeOK'
  OBVIOUS
<1>1. PICK b \in Bridges : \E p \in Opposite(b) \cup {NoPeer} : SetPeer(b, p)
  BY DEF BridgeAdmin
<1>2. PICK p \in Opposite(b) \cup {NoPeer} : SetPeer(b, p)
  BY <1>1
<1>3. p \in Bridges \cup {NoPeer}
  BY DEF Opposite, Bridges
<1>4. peer' \in [Bridges -> Bridges \cup {NoPeer}] /\ repaired' \in BOOLEAN
  BY <1>2, <1>3 DEF SetPeer, TypeOK
<1> QED
  BY <1>2, <1>4 DEF SetPeer, BridgeAdmin, ledgerVars, policyVars, TypeOK

(* Every step keeps the types.                                              *)
LEMMA NextType == TypeOK /\ [Next]_vars => TypeOK'
<1> SUFFICES ASSUME TypeOK, [Next]_vars PROVE TypeOK'
  OBVIOUS
<1>1. ASSUME NEW c \in Chains, Tick(c) PROVE TypeOK'
  <2>1. clock' \in [Chains -> Minutes]
    BY <1>1, PolicyAssumption DEF Tick, TypeOK, Minutes
  <2> QED
    BY <1>1, <2>1 DEF Tick, TypeOK, bridgeVars, ledgerVars, peerVars
<1>2. CASE SignSomething(Chains)
  <2>1. PICK s \in Chains, to \in Payees, n \in Amounts, f \in Amounts :
          Sign([source |-> s, nonce |-> nonce[s], to |-> to,
                amount |-> n, fromL1 |-> f, epoch |-> Epoch])
    BY <1>2 DEF SignSomething
  <2> DEFINE p == [source |-> s, nonce |-> nonce[s], to |-> to,
                   amount |-> n, fromL1 |-> f, epoch |-> Epoch]
  <2>2. p \in Payments
    BY PolicyAssumption, EpochType DEF TypeOK, Payments
  <2>3. signed' = signed \cup {p}
        /\ UNCHANGED <<bridgeVars, clock, spent, allowance, nonce,
                       executed, drawn>>
    BY <2>1 DEF Sign
  <2> HIDE DEF p
  <2> QED
    BY <2>2, <2>3 DEF TypeOK, bridgeVars, ledgerVars, peerVars
<1>3. ASSUME NEW p \in signed, Pay(p) PROVE TypeOK'
  <2>1. /\ p \in Payments /\ Epoch \in Epochs
        /\ \A c \in Chains : From(c, p) \in Nat
        /\ bal' \in [Accounts -> Nat]
        /\ drawn' = [c \in Chains |->
             [drawn[c] EXCEPT ![Epoch] = drawn[c][Epoch] + From(c, p)]]
    BY <1>3, PayTyped
  <2>2. drawn' \in [Chains -> [Epochs -> Nat]]
    BY <2>1 DEF TypeOK
  <2>3. spent' \in [Epochs -> Nat]
    BY <1>3, <2>1 DEF Pay, TypeOK, Payments
  <2>4. allowance' \in [Chains -> Allowances]
    <3>1. ASSUME NEW c \in Chains
          PROVE  /\ allowance[c] \in Allowances
                 /\ Charged(allowance[c], From(c, p), clock[c]) \in Allowances
      BY <2>1, ChargedType DEF TypeOK, Minutes
    <3> QED
      BY <1>3, <3>1 DEF Pay
  <2>5. nonce' \in [Chains -> Nat]
    <3>1. SafeTransaction(p.source)
      BY <1>3 DEF Pay
    <3>2. nonce' = [nonce EXCEPT ![p.source] = @ + 1]
      BY <3>1 DEF SafeTransaction
    <3>3. nonce \in [Chains -> Nat] /\ p.source \in Chains
      BY <2>1 DEF TypeOK, Payments
    <3> QED
      BY <3>2, <3>3
  <2>6. /\ nextDepositNonce' \in [L2Bridges -> Nat]
        /\ lockedDeposits' \in [L1Bridges -> SUBSET Nat]
    <3>1. /\ ConsumeDepositNonce("bridgeL2", "bridgeL1") \/ KeepDepositNonce
          /\ "bridgeL2" \in L2Bridges /\ "bridgeL1" \in L1Bridges
      BY <1>3 DEF Pay, L1Bridges, L2Bridges
    <3> QED
      BY <3>1, NoncesType
  <2>7. UNCHANGED peerVars /\ clock' = clock /\ signed' = signed
        /\ executed' \subseteq signed'
    BY <1>3 DEF Pay, TypeOK
  <2> QED
    BY <2>1, <2>2, <2>3, <2>4, <2>5, <2>6, <2>7 DEF TypeOK, peerVars
<1>4. ASSUME NEW c \in Chains, NEW s \in Settings, Reconfigure(c, s)
      PROVE  TypeOK'
  <2>1. Reconfigured(allowance[c], s.amount, s.reset, s.base, clock[c])
          \in Allowances
    <3>1. allowance[c] \in Allowances /\ clock[c] \in Nat
      BY DEF TypeOK, Minutes
    <3>2. s.base <= clock[c]
      BY <1>4 DEF Reconfigure
    <3> QED
      BY <3>1, <3>2, SettingType, ReconfiguredType
  <2>2. allowance' \in [Chains -> Allowances] /\ nonce' \in [Chains -> Nat]
    BY <1>4, <2>1 DEF Reconfigure, SafeTransaction, TypeOK
  <2> QED
    BY <1>4, <2>2 DEF Reconfigure, TypeOK, bridgeVars, ledgerVars, peerVars
<1>5. ASSUME NEW c \in Chains, NEW n \in Amounts, OwnerTransfer(c, n)
      PROVE  TypeOK'
  <2>1. bal' \in [Accounts -> Nat]
    BY <1>5, PolicyAssumption
       DEF OwnerTransfer, Transferred, TypeOK, Safe, Chains,
           Accounts, L1Accounts, L2Accounts
  <2>2. nonce' \in [Chains -> Nat]
    BY <1>5 DEF OwnerTransfer, SafeTransaction, TypeOK
  <2> QED
    BY <1>5, <2>1, <2>2 DEF OwnerTransfer, KeepDepositNonce, TypeOK, peerVars
<1>6. ASSUME NEW c \in Chains, Reject(c) PROVE TypeOK'
  BY <1>6 DEF Reject, SafeTransaction, TypeOK, bridgeVars, ledgerVars, peerVars
<1>7. CASE ThirdParty
  BY <1>7, ThirdPartyType
<1>8. CASE BridgeAdmin(Bridges)
  BY <1>8, BridgeAdminType
<1>9. CASE UNCHANGED vars
  BY <1>9 DEF vars, bridgeVars, ledgerVars, peerVars, policyVars, TypeOK
<1> QED
  BY <1>1, <1>2, <1>3, <1>4, <1>5, <1>6, <1>7, <1>8, <1>9 DEF Next

(* Every variable keeps its type: balances and counters stay natural, what  *)
(* was executed was signed, and the epoch stays within the model's epochs.  *)
THEOREM TypeCorrect == Spec => []TypeOK
<1>1. Init => TypeOK
  BY InitType
<1>2. TypeOK /\ [Next]_vars => TypeOK'
  BY NextType
<1> QED
  BY <1>1, <1>2, PTL DEF Spec

-----------------------------------------------------------------------------
(* The global budget.                                                       *)

(* Only a payment charges a budget or takes from a Safe for the policy.     *)
LEMMA OnlyPayCharges ==
  ASSUME [Next]_vars
  PROVE  \/ UNCHANGED <<spent, drawn, executed>>
         \/ \E p \in signed : Pay(p)
<1>1. ASSUME NEW c \in Chains, Tick(c) \/ Reject(c)
      PROVE  UNCHANGED <<spent, drawn, executed>>
  BY <1>1 DEF Tick, Reject, policyVars
<1>1a. CASE SignSomething(Chains)
  BY <1>1a DEF SignSomething, Sign, policyVars
<1>1b. ASSUME NEW c \in Chains, NEW t \in Settings, Reconfigure(c, t)
       PROVE  UNCHANGED <<spent, drawn, executed>>
  BY <1>1b DEF Reconfigure, policyVars
<1>1c. ASSUME NEW c \in Chains, NEW n \in Amounts, OwnerTransfer(c, n)
       PROVE  UNCHANGED <<spent, drawn, executed>>
  BY <1>1c DEF OwnerTransfer, policyVars
<1>2. CASE UNCHANGED vars
  BY <1>2 DEF vars, policyVars
<1>3. CASE ThirdParty \/ BridgeAdmin(Bridges)
  BY <1>3 DEF ThirdParty, BridgeAdmin, policyVars
<1> QED
  BY <1>1, <1>1a, <1>1b, <1>1c, <1>2, <1>3 DEF Next

(* A payment adds its amount to one epoch's charge and to what was drawn.   *)
LEMMA PayCharges ==
  ASSUME TypeOK, NEW p \in signed, Pay(p)
  PROVE  /\ Epoch \in Epochs
         /\ p.amount \in Nat \ {0} /\ From("L1", p) + From("L2", p) = p.amount
         /\ spent[Epoch] + p.amount <= GlobalLimit
         /\ spent' = [spent EXCEPT ![Epoch] = spent[Epoch] + p.amount]
         /\ \A e \in Epochs : drawn'["L1"][e] + drawn'["L2"][e] =
              drawn["L1"][e] + drawn["L2"][e]
                + (IF e = Epoch THEN p.amount ELSE 0)
<1>1. /\ p \in Payments /\ Epoch \in Epochs
      /\ \A c \in Chains : From(c, p) \in Nat
      /\ drawn' = [c \in Chains |->
           [drawn[c] EXCEPT ![Epoch] = drawn[c][Epoch] + From(c, p)]]
  BY PayTyped
<1>2. p.amount \in Nat \ {0} /\ p.fromL1 \in Nat
  BY <1>1 DEF Payments, Pay, AmountValid
<1>3. From("L1", p) + From("L2", p) = p.amount
  BY <1>2 DEF From, FromL2
<1>4. /\ spent[Epoch] + p.amount <= GlobalLimit
      /\ spent' = [spent EXCEPT ![Epoch] = spent[Epoch] + p.amount]
  BY DEF Pay, WithinBudget
<1>5. ASSUME NEW e \in Epochs
      PROVE  drawn'["L1"][e] + drawn'["L2"][e] =
               drawn["L1"][e] + drawn["L2"][e]
                 + (IF e = Epoch THEN p.amount ELSE 0)
  <2>1. \A c \in Chains : drawn'[c][e] =
          IF e = Epoch THEN drawn[c][e] + From(c, p) ELSE drawn[c][e]
    BY <1>1 DEF TypeOK
  <2>2. "L1" \in Chains /\ "L2" \in Chains
    BY DEF Chains
  <2>3. drawn["L1"][e] \in Nat /\ drawn["L2"][e] \in Nat
    BY <2>2 DEF TypeOK
  <2>4. From("L1", p) \in Nat /\ From("L2", p) \in Nat
    BY <1>1, <2>2
  <2> QED
    BY <1>2, <1>3, <2>1, <2>2, <2>3, <2>4
<1> QED
  BY <1>1, <1>2, <1>3, <1>4, <1>5

(* Every step keeps the global budget.                                      *)
LEMMA NextBudget ==
  ASSUME TypeOK, GlobalBudget, [Next]_vars
  PROVE  GlobalBudget'
<1>1. CASE UNCHANGED <<spent, drawn, executed>>
  BY <1>1 DEF GlobalBudget
<1>2. ASSUME NEW p \in signed, Pay(p) PROVE GlobalBudget'
  <2>1. /\ Epoch \in Epochs /\ p.amount \in Nat
        /\ spent[Epoch] + p.amount <= GlobalLimit
        /\ spent' = [spent EXCEPT ![Epoch] = spent[Epoch] + p.amount]
        /\ \A e \in Epochs : drawn'["L1"][e] + drawn'["L2"][e] =
             drawn["L1"][e] + drawn["L2"][e]
               + (IF e = Epoch THEN p.amount ELSE 0)
    BY <1>2, PayCharges
  <2>2. spent \in [Epochs -> Nat]
    BY DEF TypeOK
  <2>3. ASSUME NEW e \in Epochs
        PROVE  spent'[e] = spent[e] + (IF e = Epoch THEN p.amount ELSE 0)
               /\ spent'[e] <= GlobalLimit
    BY <2>1, <2>2 DEF GlobalBudget
  <2> QED
    BY <2>1, <2>3 DEF GlobalBudget
<1> QED
  BY <1>1, <1>2, OnlyPayCharges

(* What both Safes pay out through the policy in an epoch is what the       *)
(* policy counted, and never passes GLOBAL_LIMIT: for every length of the   *)
(* period, every limit and whatever the two clocks, third parties and the   *)
(* owners' settings do.                                                     *)
THEOREM BudgetHolds == Spec => []GlobalBudget
<1>1. Init => GlobalBudget
  BY PolicyAssumption DEF Init, GlobalBudget, Chains
<1>2. TypeOK /\ GlobalBudget /\ [Next]_vars => GlobalBudget'
  BY NextBudget
<1> QED
  BY <1>1, <1>2, TypeCorrect, PTL DEF Spec

-----------------------------------------------------------------------------
(* The ledger.                                                              *)

(* A pair that was not given other peers is only used as a pair: ...        *)
PairKept ==
  ~repaired => /\ peer["bridgeL1"] \in {"bridgeL2", NoPeer}
               /\ peer["bridgeL2"] \in {"bridgeL1", NoPeer}

(* ... so its L1 bridge has locked no nonce that its L2 bridge has not used. *)
PairNonces ==
  ~repaired => \A n \in lockedDeposits["bridgeL1"] : n < nextDepositNonce["bridgeL2"]

LedgerInv ==
  /\ Backing /\ Conserved
  /\ NoncesAgree /\ PairNonces /\ PairKept

(* In a pair that was kept, each bridge of the pair only meets the other.   *)
LEMMA KeptPairs ==
  ASSUME PairKept, ~repaired,
         NEW x \in L2Bridges, NEW y \in L1Bridges, Paired(x, y)
  PROVE  x = "bridgeL2" <=> y = "bridgeL1"
  BY DEF PairKept, Paired, NoPeer, L1Bridges, L2Bridges

(* Every locked nonce is below one of the two next ones, so the locked sets *)
(* are finite.                                                              *)
LEMMA LocksFinite ==
  ASSUME TypeOK, NoncesAgree, NEW y \in L1Bridges
  PROVE  IsFiniteSet(lockedDeposits[y])
<1> DEFINE top == nextDepositNonce["bridgeL2"] + nextDepositNonce["otherL2"]
<1>1. /\ nextDepositNonce["bridgeL2"] \in Nat /\ nextDepositNonce["otherL2"] \in Nat
      /\ lockedDeposits[y] \subseteq Nat
  BY DEF TypeOK, L2Bridges
<1>2. \A n \in lockedDeposits[y] : n \in 0 .. top
  BY <1>1 DEF NoncesAgree, L2Bridges
<1>3. IsFiniteSet(0 .. top)
  BY <1>1, FS_Interval
<1> QED
  BY <1>2, <1>3, FS_Subset

(* A lock under a new nonce keeps the nonces in agreement.                  *)
LEMMA NonceTaken ==
  ASSUME TypeOK, NoncesAgree, PairNonces, PairKept,
         NEW x \in L2Bridges, NEW y \in L1Bridges, Paired(x, y),
         nextDepositNonce[x] \notin lockedDeposits[y],
         ConsumeDepositNonce(x, y), UNCHANGED peerVars
  PROVE  NoncesAgree' /\ PairNonces'
<1> DEFINE k == nextDepositNonce[x]
           L(z) == lockedDeposits[z]
<1>1. /\ nextDepositNonce \in [L2Bridges -> Nat]
      /\ lockedDeposits \in [L1Bridges -> SUBSET Nat]
      /\ k \in Nat
  BY DEF TypeOK
<1>2. /\ nextDepositNonce' = [nextDepositNonce EXCEPT ![x] = k + 1]
      /\ lockedDeposits' = [lockedDeposits EXCEPT ![y] = L(y) \cup {k}]
      /\ repaired' = repaired
  BY DEF ConsumeDepositNonce, peerVars
<1>3. /\ Cardinality(L(y) \cup {k}) = Cardinality(L(y)) + 1
      /\ \A z \in L1Bridges : Cardinality(L(z)) \in Nat
  <2>1. \A z \in L1Bridges : IsFiniteSet(L(z))
    BY LocksFinite
  <2>2. Cardinality(L(y) \cup {k}) =
          IF k \in L(y) THEN Cardinality(L(y)) ELSE Cardinality(L(y)) + 1
    BY <2>1, FS_AddElement
  <2>3. \A z \in L1Bridges : Cardinality(L(z)) \in Nat
    BY <2>1, FS_CardinalityType
  <2> QED
    BY <2>2, <2>3
<1>4. Cardinality(lockedDeposits'["bridgeL1"]) + Cardinality(lockedDeposits'["otherL1"])
        = nextDepositNonce'["bridgeL2"] + nextDepositNonce'["otherL2"]
  <2>1. Cardinality(L("bridgeL1")) + Cardinality(L("otherL1"))
          = nextDepositNonce["bridgeL2"] + nextDepositNonce["otherL2"]
    BY DEF NoncesAgree
  <2>2. nextDepositNonce'["bridgeL2"] + nextDepositNonce'["otherL2"]
          = nextDepositNonce["bridgeL2"] + nextDepositNonce["otherL2"] + 1
    BY <1>1, <1>2 DEF L2Bridges
  <2>3. Cardinality(lockedDeposits'["bridgeL1"]) + Cardinality(lockedDeposits'["otherL1"])
          = Cardinality(L("bridgeL1")) + Cardinality(L("otherL1")) + 1
    <3>1. CASE y = "bridgeL1"
      <4>1. lockedDeposits'["bridgeL1"] = L(y) \cup {k}
            /\ lockedDeposits'["otherL1"] = L("otherL1")
        BY <1>1, <1>2, <3>1 DEF L1Bridges
      <4> QED
        BY <1>3, <3>1, <4>1 DEF L1Bridges
    <3>2. CASE y = "otherL1"
      <4>1. lockedDeposits'["otherL1"] = L(y) \cup {k}
            /\ lockedDeposits'["bridgeL1"] = L("bridgeL1")
        BY <1>1, <1>2, <3>2 DEF L1Bridges
      <4> QED
        BY <1>3, <3>2, <4>1 DEF L1Bridges
    <3> QED
      BY <3>1, <3>2 DEF L1Bridges
  <2> QED
    BY <2>1, <2>2, <2>3
<1>5. ASSUME NEW z \in L1Bridges, NEW n \in lockedDeposits'[z]
      PROVE  \E w \in L2Bridges : n < nextDepositNonce'[w]
  <2>1. CASE n \in L(z)
    <3>1. PICK w \in L2Bridges : n < nextDepositNonce[w]
      BY <2>1 DEF NoncesAgree
    <3>2. n \in Nat /\ nextDepositNonce[w] \in Nat
      BY <1>1, <2>1
    <3> QED
      BY <1>1, <1>2, <3>1, <3>2
  <2>2. CASE n \notin L(z)
    <3>1. n = k
      BY <1>1, <1>2, <2>2
    <3> QED
      BY <1>1, <1>2, <3>1
  <2> QED
    BY <2>1, <2>2
<1>6. PairNonces'
  <2>1. SUFFICES ASSUME ~repaired, NEW n \in lockedDeposits'["bridgeL1"]
                 PROVE  n < nextDepositNonce'["bridgeL2"]
    BY <1>2 DEF PairNonces
  <2>2. x = "bridgeL2" <=> y = "bridgeL1"
    BY <2>1, KeptPairs
  <2>3. \A m \in L("bridgeL1") : m < nextDepositNonce["bridgeL2"]
    BY <2>1 DEF PairNonces
  <2>4. L("bridgeL1") \subseteq Nat
    BY <1>1 DEF L1Bridges
  <2>5. CASE y = "bridgeL1"
    <3>1. n \in L("bridgeL1") \/ n = k
      BY <1>1, <1>2, <2>5
    <3> QED
      BY <1>1, <1>2, <2>2, <2>3, <2>4, <2>5, <3>1
  <2>6. CASE y # "bridgeL1"
    <3>1. n \in L("bridgeL1")
      BY <1>1, <1>2, <2>1, <2>6 DEF L1Bridges
    <3>2. nextDepositNonce'["bridgeL2"] = nextDepositNonce["bridgeL2"]
      BY <1>1, <1>2, <2>2, <2>6 DEF L2Bridges
    <3> QED
      BY <2>3, <3>1, <3>2
  <2> QED
    BY <2>5, <2>6
<1>7. ~repaired' => nextDepositNonce'["bridgeL2"] \notin lockedDeposits'["bridgeL1"]
  <2>1. /\ nextDepositNonce'["bridgeL2"] \in Nat
        /\ lockedDeposits'["bridgeL1"] \subseteq Nat
    BY <1>1, <1>2 DEF L1Bridges, L2Bridges
  <2> QED
    BY <1>6, <2>1 DEF PairNonces
<1> QED
  BY <1>4, <1>5, <1>6, <1>7 DEF NoncesAgree

(* A step that takes no nonce and changes no peer keeps them in agreement.  *)
LEMMA NoncesKept ==
  ASSUME NoncesAgree, PairNonces, PairKept,
         KeepDepositNonce, UNCHANGED peerVars
  PROVE  NoncesAgree' /\ PairNonces' /\ PairKept'
  BY DEF NoncesAgree, PairNonces, PairKept, KeepDepositNonce, peerVars

(* A crossing changes an escrow and a wrapped supply by the same amount, of *)
(* the pair or of neither of its bridges while the pair is kept.            *)
LEMMA CrossingLedger ==
  ASSUME TypeOK, LedgerInv, NEW n \in Nat, NEW to \in Accounts,
         NEW x \in L2Bridges, NEW y \in L1Bridges,
         \/ BridgeFromL1(x, y, n, to)
         \/ BridgeDeposit(x, y, n, to)
         \/ BridgeWithdraw(x, y, n, to)
  PROVE  LedgerInv'
<1>1. Paired(x, y) /\ UNCHANGED peerVars
  BY DEF BridgeFromL1, CanLock, BridgeDeposit, BridgeWithdraw
<1>2. repaired' = repaired /\ PairKept'
  BY <1>1 DEF LedgerInv, PairKept, peerVars
<1>3. NoncesAgree' /\ PairNonces'
  <2>1. CASE BridgeFromL1(x, y, n, to)
    <3>1. ConsumeDepositNonce(x, y) /\ nextDepositNonce[x] \notin lockedDeposits[y]
      BY <2>1 DEF BridgeFromL1, CanLock
    <3> QED
      BY <1>1, <3>1, NonceTaken DEF LedgerInv
  <2>2. CASE BridgeDeposit(x, y, n, to) \/ BridgeWithdraw(x, y, n, to)
    BY <1>1, <2>2, NoncesKept DEF LedgerInv, BridgeDeposit, BridgeWithdraw
  <2> QED
    BY <2>1, <2>2
<1>4. ~repaired => (x = "bridgeL2" <=> y = "bridgeL1")
  BY <1>1, KeptPairs DEF LedgerInv
<1>5. /\ bal \in [Accounts -> Nat]
      /\ Escrow(bal) >= AllWrapped(bal)
      /\ ~repaired => bal["bridgeL1"] >= WrappedSupply(bal)
      /\ CanonicalTotal(bal) = CanonicalTotal(InitialBalances)
  BY DEF TypeOK, LedgerInv, Backing, Conserved
<1>6. CASE BridgeFromL1(x, y, n, to) \/ BridgeDeposit(x, y, n, to)
  <2>1. /\ n <= bal["outsideL1"] /\ to \in Holders(x)
        /\ bal' = Minted(bal, "outsideL1", y, to, n)
    BY <1>6 DEF BridgeFromL1, CanLock, BridgeDeposit
  <2>2. /\ Escrow(bal') = Escrow(bal) + n
        /\ AllWrapped(bal') = AllWrapped(bal) + n
        /\ CanonicalTotal(bal') = CanonicalTotal(bal)
        /\ y = "bridgeL1" => bal'["bridgeL1"] = bal["bridgeL1"] + n
        /\ y # "bridgeL1" => bal'["bridgeL1"] = bal["bridgeL1"]
        /\ x = "bridgeL2" => WrappedSupply(bal') = WrappedSupply(bal) + n
        /\ x # "bridgeL2" => WrappedSupply(bal') = WrappedSupply(bal)
    <3>1. /\ \A a \in Accounts : bal[a] \in Nat
          /\ y \in {"bridgeL1", "otherL1"}
          /\ x = "bridgeL2" => to \in {"safeL2", "policy", "outsideL2"}
          /\ x # "bridgeL2" => to = "otherL2"
      BY <1>5, <2>1 DEF Holders, L1Bridges, L2Accounts
    <3>2. /\ bal'["outsideL1"] = bal["outsideL1"] - n
          /\ bal'[y] = bal[y] + n /\ bal'[to] = bal[to] + n
          /\ \A a \in Accounts \ {"outsideL1", y, to} : bal'[a] = bal[a]
      BY <1>5, <2>1, <3>1 DEF Minted, Accounts, L1Accounts, L2Accounts
    <3> HIDE <1>5, <2>1
    <3> QED
      BY <3>1, <3>2 DEF Escrow, AllWrapped, WrappedSupply, CanonicalTotal,
         Accounts, L1Accounts, L2Accounts
  <2>3. Backing'
    <3>1. \A a \in Accounts : bal[a] \in Nat
      BY <1>5
    <3> QED
      BY <1>2, <1>4, <1>5, <2>2, <3>1
         DEF Backing, Escrow, AllWrapped, WrappedSupply, Accounts, L1Accounts, L2Accounts
  <2>4. Conserved'
    BY <1>5, <2>2 DEF Conserved
  <2> QED
    BY <1>2, <1>3, <2>3, <2>4 DEF LedgerInv
<1>7. CASE BridgeWithdraw(x, y, n, to)
  <2>1. /\ n <= bal[Stranger(x)] /\ n <= bal[y] /\ to \in L1Accounts
        /\ bal' = Released(bal, Stranger(x), y, to, n)
    BY <1>7 DEF BridgeWithdraw
  <2>2. /\ Escrow(bal') >= Escrow(bal) - n
        /\ AllWrapped(bal') = AllWrapped(bal) - n
        /\ CanonicalTotal(bal') = CanonicalTotal(bal)
        /\ y = "bridgeL1" => bal'["bridgeL1"] >= bal["bridgeL1"] - n
        /\ y # "bridgeL1" => bal'["bridgeL1"] >= bal["bridgeL1"]
        /\ x = "bridgeL2" => WrappedSupply(bal') = WrappedSupply(bal) - n
        /\ x # "bridgeL2" => WrappedSupply(bal') = WrappedSupply(bal)
    <3> DEFINE h == Stranger(x)
    <3>1. /\ \A a \in Accounts : bal[a] \in Nat
          /\ y \in {"bridgeL1", "otherL1"}
          /\ x = "bridgeL2" => h = "outsideL2"
          /\ x # "bridgeL2" => h = "otherL2"
          /\ to \in {"safeL1", "alias", "bridgeL1", "otherL1", "outsideL1"}
      BY <1>5, <2>1 DEF Stranger, L1Bridges, L1Accounts
    <3>2. /\ bal'[h] = bal[h] - n
          /\ y # to => bal'[y] = bal[y] - n /\ bal'[to] = bal[to] + n
          /\ y = to => bal'[y] = bal[y]
          /\ \A a \in Accounts \ {h, y, to} : bal'[a] = bal[a]
      BY <1>5, <2>1, <3>1 DEF Released, Accounts, L1Accounts, L2Accounts
    <3> HIDE <1>5, <2>1 DEF h
    <3>3. /\ Escrow(bal') >= Escrow(bal) - n
          /\ CanonicalTotal(bal') = CanonicalTotal(bal)
          /\ y = "bridgeL1" => bal'["bridgeL1"] >= bal["bridgeL1"] - n
          /\ y # "bridgeL1" => bal'["bridgeL1"] >= bal["bridgeL1"]
      BY <3>1, <3>2 DEF Escrow, CanonicalTotal,
         Accounts, L1Accounts, L2Accounts
    <3>4. /\ AllWrapped(bal') = AllWrapped(bal) - n
          /\ x = "bridgeL2" => WrappedSupply(bal') = WrappedSupply(bal) - n
          /\ x # "bridgeL2" => WrappedSupply(bal') = WrappedSupply(bal)
      BY <3>1, <3>2 DEF AllWrapped, WrappedSupply,
         Accounts, L1Accounts, L2Accounts
    <3> QED
      BY <3>3, <3>4
  <2>3. Backing'
    <3>1. bal' \in [Accounts -> Nat]
      BY CrossingType DEF LedgerType
    <3>2. \A a \in Accounts : bal[a] \in Nat /\ bal'[a] \in Nat
      BY <1>5, <3>1
    <3> QED
      BY <1>2, <1>4, <1>5, <2>2, <3>2
         DEF Backing, Escrow, AllWrapped, WrappedSupply, Accounts, L1Accounts, L2Accounts
  <2>4. Conserved'
    BY <1>5, <2>2 DEF Conserved
  <2> QED
    BY <1>2, <1>3, <2>3, <2>4 DEF LedgerInv
<1> QED
  BY <1>6, <1>7

(* Every step keeps the backing, the total and the lock nonces.             *)
LEMMA NextLedger ==
  ASSUME TypeOK, LedgerInv, [Next]_vars
  PROVE  LedgerInv'
<1>1. ASSUME UNCHANGED bridgeVars PROVE LedgerInv'
  BY <1>1 DEF LedgerInv, Backing, Conserved, NoncesAgree, PairNonces, PairKept,
     bridgeVars, ledgerVars, peerVars
<1>2. ASSUME NEW p \in signed, Pay(p) PROVE LedgerInv'
  <2>1. p \in Payments /\ bal \in [Accounts -> Nat]
    BY DEF TypeOK
  <2>2. bal' = PayLedger(p) /\ UNCHANGED peerVars
    BY <1>2 DEF Pay
  <2>3. /\ bal'["bridgeL1"] - WrappedSupply(bal')
             = bal["bridgeL1"] - WrappedSupply(bal)
        /\ bal'["otherL1"] >= bal["otherL1"]
        /\ bal'["otherL2"] = bal["otherL2"]
        /\ CanonicalTotal(bal') = CanonicalTotal(bal)
    BY <1>2, <2>1, <2>2, PayLedgerBacked DEF Pay
  <2>4. bal' \in [Accounts -> Nat]
    BY <1>2, PayTyped
  <2>5. Backing'
    BY <2>1, <2>2, <2>3, <2>4 DEF LedgerInv, Backing, Escrow, AllWrapped,
       WrappedSupply, peerVars, Accounts, L1Accounts, L2Accounts
  <2>6. Conserved'
    BY <2>3 DEF LedgerInv, Conserved
  <2>7. NoncesAgree' /\ PairNonces' /\ PairKept'
    <3>1. CASE Locks(p)
      <4>1. /\ "bridgeL2" \in L2Bridges /\ "bridgeL1" \in L1Bridges
            /\ Paired("bridgeL2", "bridgeL1")
            /\ nextDepositNonce["bridgeL2"] \notin lockedDeposits["bridgeL1"]
            /\ ConsumeDepositNonce("bridgeL2", "bridgeL1")
        BY <1>2, <3>1 DEF Pay, BridgeAccepts, CanLock, L1Bridges, L2Bridges
      <4>2. NoncesAgree' /\ PairNonces'
        BY <2>2, <4>1, NonceTaken DEF LedgerInv
      <4> QED
        BY <2>2, <4>2 DEF LedgerInv, PairKept, peerVars
    <3>2. CASE ~Locks(p)
      BY <1>2, <2>2, <3>2, NoncesKept DEF LedgerInv, Pay
    <3> QED
      BY <3>1, <3>2
  <2> QED
    BY <2>5, <2>6, <2>7 DEF LedgerInv
<1>3. ASSUME NEW c \in Chains, NEW n \in Amounts, OwnerTransfer(c, n)
      PROVE  LedgerInv'
  <2>1. Backing' /\ Conserved'
    BY <1>3, PolicyAssumption
       DEF LedgerInv, OwnerTransfer, Transferred, TypeOK, Safe, Chains, Backing,
           Conserved, Escrow, AllWrapped, WrappedSupply, CanonicalTotal, peerVars,
           Accounts, L1Accounts, L2Accounts
  <2>2. NoncesAgree' /\ PairNonces' /\ PairKept'
    BY <1>3, NoncesKept DEF LedgerInv, OwnerTransfer
  <2> QED
    BY <2>1, <2>2 DEF LedgerInv
<1>4. CASE ThirdParty
  <2>1. PICK n \in Amounts \ {0}, to \in Accounts :
          \/ \E x \in L2Bridges, y \in L1Bridges :
               \/ BridgeFromL1(x, y, n, to)
               \/ BridgeDeposit(x, y, n, to)
               \/ BridgeWithdraw(x, y, n, to)
          \/ OutsideTransfer(n, to)
    BY <1>4 DEF ThirdParty
  <2>2. n \in Nat
    BY <2>1, PolicyAssumption
  <2>3. CASE OutsideTransfer(n, to)
    <3>1. Backing' /\ Conserved'
      BY <2>2, <2>3
         DEF LedgerInv, OutsideTransfer, Transferred, TypeOK, Backing,
             Conserved, Escrow, AllWrapped, WrappedSupply, CanonicalTotal,
             peerVars, Accounts, L1Accounts, L2Accounts, Outside
    <3>2. NoncesAgree' /\ PairNonces' /\ PairKept'
      BY <2>3, NoncesKept DEF LedgerInv, OutsideTransfer
    <3> QED
      BY <3>1, <3>2 DEF LedgerInv
  <2> QED
    BY <2>1, <2>2, <2>3, CrossingLedger
<1>5. CASE BridgeAdmin(Bridges)
  <2>1. PICK b \in Bridges : \E p \in Opposite(b) \cup {NoPeer} : SetPeer(b, p)
    BY <1>5 DEF BridgeAdmin
  <2>1a. PICK p \in Opposite(b) \cup {NoPeer} : SetPeer(b, p)
    BY <2>1
  <2>2. /\ UNCHANGED ledgerVars
        /\ repaired' = (repaired \/ (b \in DOMAIN Partner /\ p \notin {Partner[b], NoPeer}))
        /\ peer' = [peer EXCEPT ![b] = p]
    BY <2>1a DEF SetPeer
  <2>3. repaired => repaired'
    BY <2>2
  <2>4. PairKept'
    <3>1. /\ DOMAIN Partner = {"bridgeL1", "bridgeL2"}
          /\ Partner["bridgeL1"] = "bridgeL2" /\ Partner["bridgeL2"] = "bridgeL1"
      BY DEF Partner
    <3>2. peer \in [Bridges -> Bridges \cup {NoPeer}]
      BY DEF TypeOK
    <3>3. SUFFICES ASSUME ~repaired'
                   PROVE  /\ peer'["bridgeL1"] \in {"bridgeL2", NoPeer}
                          /\ peer'["bridgeL2"] \in {"bridgeL1", NoPeer}
      BY DEF PairKept
    <3>4. /\ peer["bridgeL1"] \in {"bridgeL2", NoPeer}
          /\ peer["bridgeL2"] \in {"bridgeL1", NoPeer}
      BY <2>3, <3>3 DEF LedgerInv, PairKept
    <3>5. b \in DOMAIN Partner => p \in {Partner[b], NoPeer}
      BY <2>2, <3>3
    <3>6. /\ peer'["bridgeL1"] = IF b = "bridgeL1" THEN p ELSE peer["bridgeL1"]
          /\ peer'["bridgeL2"] = IF b = "bridgeL2" THEN p ELSE peer["bridgeL2"]
      BY <2>2, <3>2 DEF Bridges, L1Bridges, L2Bridges
    <3> QED
      BY <3>1, <3>4, <3>5, <3>6
  <2>5. Backing' /\ Conserved' /\ NoncesAgree' /\ PairNonces'
    BY <2>2, <2>3 DEF LedgerInv, Backing, Conserved, NoncesAgree, PairNonces, ledgerVars
  <2> QED
    BY <2>4, <2>5 DEF LedgerInv
<1>6. ASSUME NEW c \in Chains, Tick(c) \/ Reject(c) PROVE LedgerInv'
  BY <1>1, <1>6 DEF Tick, Reject
<1>7. SignSomething(Chains) => LedgerInv'
  BY <1>1 DEF SignSomething, Sign
<1>8. ASSUME NEW c \in Chains, NEW s \in Settings, Reconfigure(c, s)
      PROVE  LedgerInv'
  BY <1>1, <1>8 DEF Reconfigure
<1>9. UNCHANGED vars => LedgerInv'
  BY <1>1 DEF vars
<1> QED
  BY <1>2, <1>3, <1>4, <1>5, <1>6, <1>7, <1>8, <1>9 DEF Next

(* The model starts backed, paired, with no lock made.                      *)
LEMMA InitLedger == Init => LedgerInv
<1> SUFFICES ASSUME Init PROVE LedgerInv
  OBVIOUS
<1>1. Backing /\ Conserved
  BY BridgeAssumption DEF Init, BridgeInit, Backing, Conserved, Escrow, AllWrapped,
     WrappedSupply, Accounts, L1Accounts, L2Accounts
<1>2. NoncesAgree /\ PairNonces
  <2>1. /\ \A y \in L1Bridges : lockedDeposits[y] = {}
        /\ nextDepositNonce["bridgeL2"] = 0 /\ nextDepositNonce["otherL2"] = 0
    BY DEF Init, BridgeInit, L2Bridges
  <2>2. Cardinality({}) = 0
    BY FS_EmptySet
  <2> QED
    BY <2>1, <2>2 DEF NoncesAgree, PairNonces, L1Bridges
<1>3. PairKept
  BY BridgeAssumption DEF Init, BridgeInit, PairKept, Partner
<1> QED
  BY <1>1, <1>2, <1>3 DEF LedgerInv

(* The ledger's invariant: escrow and wrapped supply, canonical USDC, lock  *)
(* nonces and what is left of a pair that was kept, for every balance,      *)
(* amount, number of deposits and change of peers.                          *)
THEOREM LedgerHolds == Spec => []LedgerInv
<1>1. Init => LedgerInv
  BY InitLedger
<1>2. TypeOK /\ LedgerInv /\ [Next]_vars => LedgerInv'
  BY NextLedger
<1> QED
  BY <1>1, <1>2, TypeCorrect, PTL DEF Spec

(* All wrapped USDC is backed by USDC locked in the L1 bridges, whatever    *)
(* peers their admins choose; and the treasury's wrapped USDC by its own    *)
(* bridge's escrow, for as long as its pair is not given other peers.       *)
THEOREM BackingHolds == Spec => []Backing
<1>1. LedgerInv => Backing
  BY DEF LedgerInv
<1> QED
  BY <1>1, LedgerHolds, PTL

(* Canonical USDC is neither made nor lost by payments, deposits and        *)
(* withdrawals.                                                             *)
THEOREM USDCConserved == Spec => []Conserved
<1>1. LedgerInv => Conserved
  BY DEF LedgerInv
<1> QED
  BY <1>1, LedgerHolds, PTL

(* Each deposit of an L2 bridge has a lock of its own on L1, through every  *)
(* change of peers, and a pair that was kept is never refused a nonce as    *)
(* one already locked.                                                      *)
THEOREM LockNoncesAgree == Spec => []NoncesAgree
<1>1. LedgerInv => NoncesAgree
  BY DEF LedgerInv
<1> QED
  BY <1>1, LedgerHolds, PTL

-----------------------------------------------------------------------------
(* Delivery.                                                                *)

(* Every payment step delivers exactly what was signed, from and to the     *)
(* accounts that were signed, whatever tokens lie on the contracts.         *)
THEOREM PaymentsDeliver == Spec => DeliversExactly
<1>1. ASSUME TypeOK, [Next]_vars
      PROVE  [\A p \in executed' \ executed :
                /\ \A c \in Chains : bal[Safe(c)] - bal'[Safe(c)] = From(c, p)
                /\ bal'[p.to] = bal[p.to] + p.amount
                /\ \A a \in (Outside \ {p.to}) \cup {"alias", "policy"} :
                     bal'[a] = bal[a]]_vars
  <2>1. CASE UNCHANGED <<spent, drawn, executed>>
    BY <2>1
  <2>2. ASSUME NEW q \in signed, Pay(q), NEW p \in executed' \ executed
        PROVE  /\ \A c \in Chains : bal[Safe(c)] - bal'[Safe(c)] = From(c, p)
               /\ bal'[p.to] = bal[p.to] + p.amount
               /\ \A a \in (Outside \ {p.to}) \cup {"alias", "policy"} :
                    bal'[a] = bal[a]
    <3>1. p = q
      BY <2>2 DEF Pay
    <3>2. /\ p \in Payments /\ bal \in [Accounts -> Nat]
          /\ \A c \in Chains : From(c, p) \in Nat
          /\ bal'["safeL1"] = bal["safeL1"] - From("L1", p)
          /\ bal'["safeL2"] = bal["safeL2"] - From("L2", p)
      BY <1>1, <2>2, <3>1, PayTyped DEF TypeOK
    <3>3. bal' = PayLedger(p)
      BY <2>2, <3>1 DEF Pay
    <3>4. /\ bal'["alias"] = bal["alias"] /\ bal'["policy"] = bal["policy"]
          /\ bal'[p.to] = bal[p.to] + p.amount
          /\ \A a \in Outside \ {p.to} : bal'[a] = bal[a]
      <4>1. /\ p.to \notin {"alias", "policy", "safeL1", "safeL2", "bridgeL1"}
            /\ p.to \in {"outsideL1", "outsideL2", "otherL1"}
        BY <2>2, <3>1, <3>2, PayeeApart DEF Pay
      <4>2. /\ bal'[p.to] = bal[p.to] + p.amount
            /\ \A a \in Accounts \ {"safeL1", "safeL2", "bridgeL1", p.to} :
                 bal'[a] = bal[a]
        BY <2>2, <3>1, <3>2, <3>3, PayLedgerEffect DEF Pay
      <4> QED
        BY <4>1, <4>2 DEF Outside, Accounts, L1Accounts, L2Accounts
    <3>5. \A c \in Chains : bal[Safe(c)] - bal'[Safe(c)] = From(c, p)
      BY <3>2 DEF Safe, Chains, Accounts, L1Accounts, L2Accounts
    <3> QED
      BY <3>4, <3>5
  <2> QED
    BY <1>1, <2>1, <2>2, OnlyPayCharges
<1> QED
  BY <1>1, TypeCorrect, PTL DEF Spec, DeliversExactly

-----------------------------------------------------------------------------
(* The allowance of each Safe.                                              *)

(* A zero remainder makes a whole number of periods.                        *)
LEMMA WholePeriods ==
  ASSUME NEW P \in Nat \ {0}, NEW n \in Nat, n % P = 0
  PROVE  \E k \in Nat : n = k * P
<1>1. n = (n \div P) * P + (n % P)
  BY DivMod
<1>2. n \div P \in Nat
  BY DivBound
<1> QED
  BY <1>1, <1>2

(* Periods counted from any boundary start at boundaries.                   *)
LEMMA AlignedStart ==
  ASSUME NEW P \in Nat \ {0}, NEW now \in Nat, NEW base \in Nat,
         base % P = 0
  PROVE  /\ PeriodStart(now, base, P) = (now \div P) * P
         /\ PeriodStart(now, base, P) % P = 0
<1>1. PICK k \in Nat : base = k * P
  BY WholePeriods
<1>2. (now - base) % P = now % P
  <2>1. now \in Int /\ k \in Int
    OBVIOUS
  <2>2. (now - k * P) % P = now % P
    BY <2>1, ModShift
  <2> QED
    BY <1>1, <2>2
<1>3. PICK q \in Int, r \in 0..P-1 : now = q * P + r
  <2>1. /\ now \div P \in Int
        /\ now % P \in 0..P-1
        /\ now = (now \div P) * P + (now % P)
    BY DivMod
  <2> QED
    BY <2>1, Zenon
<1>4. now % P = r /\ now \div P = q
  BY <1>3, ModUnique
<1>5. PeriodStart(now, base, P) = now - r
  <2>1. PeriodStart(now, base, P) = now - ((now - base) % P)
    BY Zenon DEF PeriodStart
  <2> QED
    BY <1>2, <1>4, <2>1, Zenon
<1>6. now - r = q * P
  BY <1>3
<1>7. 0 \in 0..P-1 /\ q * P = q * P + 0 /\ q * P \in Int
  OBVIOUS
<1>8. (q * P) % P = 0
  BY <1>7, ModUnique
<1> QED
  BY <1>4, <1>5, <1>6, <1>8

(* A boundary less than a period before now is the start of now's period.   *)
LEMMA CurrentPeriod ==
  ASSUME NEW P \in Nat \ {0}, NEW now \in Nat, NEW start \in Nat,
         start % P = 0, start <= now, now < start + P
  PROVE  start = (now \div P) * P
<1>1. PICK k \in Nat : start = k * P
  BY WholePeriods
<1>2. now = k * P + (now - start) /\ now - start \in 0..P-1
  BY <1>1
<1>3. now \div P = k
  <2> DEFINE r == now - start
  <2>1. r \in 0..P-1 /\ now = k * P + r /\ now \in Int /\ k \in Int
    BY <1>2
  <2> HIDE DEF r
  <2> QED
    BY <2>1, ModUnique
<1> QED
  BY <1>1, <1>3

(* What AllowanceCovers says of one allowance `a`, at minute `now`, when    *)
(* d[e] was drawn in epoch e.                                               *)
Covers(a, now, d) ==
  /\ a.reset = PeriodMin
  /\ a.lastReset % PeriodMin = 0
  /\ a.lastReset <= now
  /\ \A e \in Epochs :
       /\ e * PeriodMin > a.lastReset => d[e] = 0
       /\ e * PeriodMin = a.lastReset => d[e] <= a.spent

(* Loading an allowance keeps the cover: a reset forgets only drawings of   *)
(* epochs that the new period is past.                                      *)
LEMMA EffectiveCovers ==
  ASSUME NEW a \in Allowances, NEW now \in Minutes, NEW d \in [Epochs -> Nat],
         Covers(a, now, d)
  PROVE  Covers(Effective(a, now), now, d)
<1>1. /\ now \in Nat /\ PeriodMin \in Nat \ {0} /\ a.reset = PeriodMin
      /\ a.lastReset \in Nat /\ a.lastReset % PeriodMin = 0
      /\ \A e \in Epochs : e * PeriodMin \in Nat /\ d[e] \in Nat
  BY PolicyAssumption DEF Minutes, Covers, Allowances, Epochs
<1>2. CASE ResetDue(a, now)
  <2> DEFINE s == PeriodStart(now, a.lastReset, a.reset)
  <2>1. s \in Int /\ s <= now
    <3>1. now \in Int /\ a.lastReset \in Int /\ a.reset \in Nat \ {0}
      BY <1>1
    <3> QED
      BY <3>1, PeriodStartBound
  <2>2. s % PeriodMin = 0
    BY <1>1, AlignedStart
  <2>3. Effective(a, now) = [a EXCEPT !.spent = 0, !.lastReset = s]
    BY <1>2 DEF Effective
  <2>4. /\ Effective(a, now).reset = PeriodMin
        /\ Effective(a, now).lastReset = s /\ Effective(a, now).spent = 0
    BY <1>1, <2>3 DEF Allowances
  <2>5. s > a.lastReset
    BY <1>1, <1>2, <2>4, EffectiveType
  <2> HIDE DEF s
  <2>6. ASSUME NEW e \in Epochs, e * PeriodMin >= s PROVE d[e] = 0
    BY <1>1, <2>1, <2>5, <2>6 DEF Covers
  <2>7. ASSUME NEW e \in Epochs
        PROVE  /\ e * PeriodMin > s => d[e] = 0
               /\ e * PeriodMin = s => d[e] <= 0
    BY <1>1, <2>1, <2>6
  <2> QED
    BY <2>1, <2>2, <2>4, <2>7 DEF Covers
<1>3. CASE ~ResetDue(a, now)
  BY <1>1, <1>3, EffectiveType
<1> QED
  BY <1>2, <1>3

(* A charge of the current epoch keeps the cover, and what the epoch has    *)
(* drawn after it is within the charge.                                     *)
LEMMA ChargedCovers ==
  ASSUME NEW a \in Allowances, NEW now \in Minutes, NEW d \in [Epochs -> Nat],
         NEW n \in Nat, NEW epoch \in Epochs,
         Covers(a, now, d),
         Effective(a, now).lastReset = epoch * PeriodMin
  PROVE  /\ Covers(Charged(a, n, now), now,
                   [d EXCEPT ![epoch] = d[epoch] + n])
         /\ d[epoch] <= Effective(a, now).spent
<1> DEFINE x == Effective(a, now)
           y == Charged(a, n, now)
           d2 == [d EXCEPT ![epoch] = d[epoch] + n]
<1>1. now \in Nat
  BY DEF Minutes
<1>2. Covers(x, now, d) /\ x \in Allowances
  BY <1>1, EffectiveCovers, EffectiveType
<1>3. y = [x EXCEPT !.spent = x.spent + n]
  BY DEF Charged
<1>4. x.lastReset = epoch * PeriodMin
  OBVIOUS
<1> HIDE DEF x, y
<1>5. y.spent = x.spent + n /\ y.lastReset = x.lastReset /\ y.reset = x.reset
      /\ x.spent \in Nat /\ x.lastReset \in Nat
  BY <1>2, <1>3 DEF Allowances
<1>6. d[epoch] <= x.spent
  BY <1>2, <1>4 DEF Covers
<1>7. ASSUME NEW e \in Epochs
      PROVE  /\ e * PeriodMin > y.lastReset => d2[e] = 0
             /\ e * PeriodMin = y.lastReset => d2[e] <= y.spent
  <2>1. CASE e = epoch
    <3>1. d2[e] = d[epoch] + n /\ d[epoch] \in Nat
      BY <2>1
    <3>2. ~(e * PeriodMin > y.lastReset)
      BY <1>4, <1>5, <2>1
    <3> QED
      BY <1>5, <1>6, <3>1, <3>2
  <2>2. CASE e # epoch
    <3>1. d2[e] = d[e] /\ d[e] \in Nat
      BY <2>2
    <3>2. /\ e * PeriodMin > x.lastReset => d[e] = 0
          /\ e * PeriodMin = x.lastReset => d[e] <= x.spent
      BY <1>2 DEF Covers
    <3> QED
      BY <1>5, <3>1, <3>2
  <2> QED
    BY <2>1, <2>2
<1>8. Covers(y, now, d2)
  BY <1>2, <1>5, <1>7 DEF Covers
<1> QED
  BY <1>6, <1>8 DEF x, y

(* setAllowance on the epoch schedule keeps the cover.                      *)
LEMMA ReconfiguredCovers ==
  ASSUME NEW a \in Allowances, NEW now \in Minutes, NEW d \in [Epochs -> Nat],
         NEW amount \in Nat, NEW base \in Nat, base % PeriodMin = 0,
         base <= now, Covers(a, now, d)
  PROVE  Covers(Reconfigured(a, amount, PeriodMin, base, now), now, d)
<1> DEFINE x == Effective(a, now)
           y == Reconfigured(a, amount, PeriodMin, base, now)
<1>1. now \in Nat /\ PeriodMin \in Nat \ {0}
  BY PolicyAssumption DEF Minutes
<1>2. x \in Allowances /\ Covers(x, now, d)
  BY <1>1, EffectiveCovers, EffectiveType
<1>3. /\ y.reset = PeriodMin /\ y.spent = x.spent
      /\ y.lastReset = PeriodStart(now, base, PeriodMin)
  BY DEF Reconfigured
<1>4. /\ y.lastReset = (now \div PeriodMin) * PeriodMin
      /\ y.lastReset % PeriodMin = 0
  <2>1. /\ PeriodStart(now, base, PeriodMin) = (now \div PeriodMin) * PeriodMin
        /\ PeriodStart(now, base, PeriodMin) % PeriodMin = 0
    BY <1>1, AlignedStart
  <2> HIDE DEF y
  <2> QED
    BY <1>3, <2>1, Zenon
<1>5. y.lastReset <= now
  <2>1. now \in Int /\ base \in Int
    BY <1>1
  <2> QED
    BY <1>1, <1>3, <2>1, PeriodStartBound
<1>6. x.lastReset = y.lastReset
  <2>1. x.lastReset \in Nat /\ x.lastReset % PeriodMin = 0
        /\ x.lastReset <= now
    BY <1>2 DEF Covers, Allowances
  <2>2. now < x.lastReset + PeriodMin
    <3>1. CASE ResetDue(a, now)
      <4>1. a.lastReset \in Int /\ now \in Int /\ a.reset = PeriodMin
        BY <1>1 DEF Allowances, Covers
      <4>2. x.lastReset = PeriodStart(now, a.lastReset, PeriodMin)
        BY <3>1, <4>1 DEF Effective, Allowances
      <4>3. x.lastReset > now - PeriodMin
        BY <1>1, <4>1, <4>2, PeriodStartBound
      <4> HIDE DEF x
      <4> QED
        BY <1>1, <2>1, <4>3
    <3>2. CASE ~ResetDue(a, now)
      <4>1. x = a /\ a.reset = PeriodMin /\ a.lastReset \in Nat
        BY <1>1, <3>2, EffectiveType DEF Covers, Allowances
      <4>2. ~(a.lastReset <= now - PeriodMin)
        BY <3>2, <4>1 DEF ResetDue
      <4> HIDE DEF x
      <4> QED
        BY <1>1, <4>1, <4>2
    <3> QED
      BY <3>1, <3>2
  <2> HIDE DEF x, y
  <2> QED
    BY <1>1, <1>4, <2>1, <2>2, CurrentPeriod
<1> HIDE DEF x, y
<1>7. Covers(y, now, d)
  BY <1>2, <1>3, <1>4, <1>5, <1>6 DEF Covers
<1> QED
  BY <1>7 DEF y

(* The cover, one allowance at a time.                                      *)
LEMMA CoversAll ==
  AllowanceCovers <=> \A c \in Chains : Covers(allowance[c], clock[c], drawn[c])
  BY DEF AllowanceCovers, Covers

(* A payment: the charged allowances cover what they paid, and the current  *)
(* epoch's drawings end within the ceiling.                                 *)
LEMMA PayCovers ==
  ASSUME TypeOK, AllowanceCovers, NEW p \in signed, Pay(p), NEW c \in Chains
  PROVE  /\ Covers(allowance'[c], clock'[c], drawn'[c])
         /\ \A e \in Epochs : drawn'[c][e] > drawn[c][e]
              => drawn'[c][e] <= allowance[c].amount
<1> DEFINE n == From(c, p)
           d == drawn[c]
           now == clock[c]
           a == allowance[c]
<1>1. /\ Epoch \in Epochs /\ n \in Nat
      /\ drawn'[c] = [d EXCEPT ![Epoch] = d[Epoch] + n]
  BY PayTyped
<1>2. /\ a \in Allowances /\ now \in Minutes /\ now \in Nat
      /\ d \in [Epochs -> Nat]
  BY DEF TypeOK, Minutes
<1>3. Covers(a, now, d)
  BY CoversAll
<1>4. /\ Effective(a, now).lastReset = Epoch * PeriodMin
      /\ n <= Unspent(a, now)
      /\ clock' = clock
      /\ allowance'[c] = IF n > 0 THEN Charged(a, n, now) ELSE a
  BY DEF Pay, Aligned, HasCapacity
<1> HIDE DEF n, d, now, a
<1>5. CASE n > 0
  <2>1. /\ Covers(Charged(a, n, now), now,
                  [d EXCEPT ![Epoch] = d[Epoch] + n])
        /\ d[Epoch] <= Effective(a, now).spent
    BY <1>1, <1>2, <1>3, <1>4, ChargedCovers
  <2>2. Effective(a, now).spent + n <= a.amount
    BY <1>1, <1>2, <1>4, <1>5, CapacityBound
  <2>3. Effective(a, now).spent \in Nat /\ a.amount \in Nat
    BY <1>2, EffectiveType DEF Allowances
  <2>4. d[Epoch] + n <= a.amount
    BY <1>1, <1>2, <2>1, <2>2, <2>3
  <2>5. ASSUME NEW e \in Epochs, drawn'[c][e] > d[e]
        PROVE  drawn'[c][e] <= a.amount
    BY <1>1, <1>2, <2>4, <2>5
  <2> QED
    BY <1>1, <1>4, <1>5, <2>1, <2>5 DEF now, d, a
<1>6. CASE n = 0
  <2>1. drawn'[c] = d
    BY <1>1, <1>2, <1>6
  <2> QED
    BY <1>2, <1>3, <1>4, <1>6, <2>1 DEF now, d, a
<1> QED
  BY <1>1, <1>5, <1>6

(* Every step keeps the cover, when the owners stay on the schedule.        *)
LEMMA NextCovers ==
  ASSUME SettingsAligned, TypeOK, AllowanceCovers, [Next]_vars
  PROVE  AllowanceCovers'
<1>0. AllowanceCovers' <=>
        \A c \in Chains : Covers(allowance'[c], clock'[c], drawn'[c])
  BY DEF AllowanceCovers, Covers
<1>1. ASSUME UNCHANGED <<clock, allowance, drawn>> PROVE AllowanceCovers'
  BY <1>1 DEF AllowanceCovers
<1>2. ASSUME NEW c \in Chains, Tick(c) PROVE AllowanceCovers'
  <2>1. \A h \in Chains : clock[h] \in Nat /\ clock'[h] \in Nat
                          /\ clock'[h] >= clock[h]
    BY <1>2 DEF Tick, TypeOK, Minutes
  <2>2. \A h \in Chains : allowance[h].lastReset \in Nat
    BY DEF TypeOK, Allowances
  <2>3. allowance' = allowance /\ drawn' = drawn
    BY <1>2 DEF Tick
  <2>4. \A h \in Chains : Covers(allowance[h], clock[h], drawn[h])
    BY CoversAll
  <2>5. \A h \in Chains : Covers(allowance[h], clock'[h], drawn[h])
    BY <2>1, <2>2, <2>4 DEF Covers
  <2> QED
    BY <1>0, <2>3, <2>5
<1>3. ASSUME NEW p \in signed, Pay(p) PROVE AllowanceCovers'
  BY <1>0, <1>3, PayCovers
<1>4. ASSUME NEW c \in Chains, NEW s \in Settings, Reconfigure(c, s)
      PROVE  AllowanceCovers'
  <2>1. s.amount \in Nat /\ s.base \in Nat
    BY SettingType
  <2>2. s.reset = PeriodMin /\ s.base % PeriodMin = 0 /\ s.base <= clock[c]
    BY <1>4 DEF SettingsAligned, Reconfigure
  <2>3. \A h \in Chains : /\ allowance[h] \in Allowances
                          /\ clock[h] \in Minutes
                          /\ drawn[h] \in [Epochs -> Nat]
                          /\ Covers(allowance[h], clock[h], drawn[h])
    BY CoversAll DEF TypeOK
  <2>4. Covers(Reconfigured(allowance[c], s.amount, PeriodMin, s.base, clock[c]),
               clock[c], drawn[c])
    BY <2>1, <2>2, <2>3, ReconfiguredCovers
  <2>5. /\ clock' = clock /\ drawn' = drawn
        /\ \A h \in Chains : allowance'[h] =
             IF h = c
               THEN Reconfigured(allowance[c], s.amount, PeriodMin, s.base,
                                 clock[c])
               ELSE allowance[h]
    BY <1>4, <2>2 DEF Reconfigure, TypeOK
  <2> QED
    BY <1>0, <2>3, <2>4, <2>5
<1>5. ASSUME NEW c \in Chains, NEW n \in Amounts, OwnerTransfer(c, n)
      PROVE  AllowanceCovers'
  BY <1>1, <1>5 DEF OwnerTransfer
<1>6. SignSomething(Chains) \/ ThirdParty \/ BridgeAdmin(Bridges) => AllowanceCovers'
  BY <1>1 DEF SignSomething, Sign, ThirdParty, BridgeAdmin, policyVars
<1>7. ASSUME NEW c \in Chains, Reject(c) PROVE AllowanceCovers'
  BY <1>1, <1>7 DEF Reject
<1>8. UNCHANGED vars => AllowanceCovers'
  BY <1>1 DEF vars, policyVars
<1> QED
  BY <1>2, <1>3, <1>4, <1>5, <1>6, <1>7, <1>8 DEF Next

(* The deployment's allowances start on the schedule with nothing drawn.    *)
LEMMA InitCovers == Init => AllowanceCovers
<1>1. \A e \in Epochs : e * PeriodMin \in Nat
  BY PolicyAssumption DEF Epochs
<1> QED
  BY <1>1, PolicyAssumption DEF Init, AllowanceCovers, Chains

(* While the owners keep their allowances on the epoch schedule, an         *)
(* allowance accounts for everything its Safe paid in the current epoch,    *)
(* however far the two clocks drift apart.                                  *)
THEOREM AllowancesCover == SettingsAligned => (Spec => []AllowanceCovers)
<1> SUFFICES ASSUME SettingsAligned PROVE Spec => []AllowanceCovers
  OBVIOUS
<1>1. Init => AllowanceCovers
  BY InitCovers
<1>2. TypeOK /\ AllowanceCovers /\ [Next]_vars => AllowanceCovers'
  BY NextCovers
<1> QED
  BY <1>1, <1>2, TypeCorrect, PTL DEF Spec

(* Then no payment takes a Safe's contribution to an epoch above the        *)
(* allowance the Safe grants when it is made.                               *)
THEOREM SafeAllowanceHolds == SettingsAligned => (Spec => WithinSafeAllowance)
<1> SUFFICES ASSUME SettingsAligned PROVE Spec => WithinSafeAllowance
  OBVIOUS
<1>1. ASSUME TypeOK, AllowanceCovers, [Next]_vars
      PROVE  [\A c \in Chains, e \in Epochs :
                drawn'[c][e] > drawn[c][e]
                  => drawn'[c][e] <= allowance[c].amount]_vars
  <2>1. CASE UNCHANGED <<spent, drawn, executed>>
    <3>1. ASSUME NEW c \in Chains, NEW e \in Epochs
          PROVE  ~(drawn[c][e] > drawn[c][e])
      <4>1. drawn[c][e] \in Nat
        BY <1>1 DEF TypeOK
      <4> QED
        BY <4>1
    <3> QED
      BY <2>1, <3>1
  <2>2. ASSUME NEW p \in signed, Pay(p), NEW c \in Chains, NEW e \in Epochs
        PROVE  drawn'[c][e] > drawn[c][e]
                 => drawn'[c][e] <= allowance[c].amount
    BY <1>1, <2>2, PayCovers
  <2> QED
    BY <1>1, <2>1, <2>2, OnlyPayCharges
<1> QED
  BY <1>1, TypeCorrect, AllowancesCover, PTL DEF Spec, WithinSafeAllowance

-----------------------------------------------------------------------------
(* Rival payments.                                                          *)

(* A payment that was executed has used up its nonce.                       *)
NoncesUsed ==
  /\ OnePerNonce
  /\ \A p \in executed : p.nonce < nonce[p.source]

(* Nonces only grow.                                                        *)
LEMMA NoncesGrow ==
  ASSUME TypeOK, [Next]_vars
  PROVE  \A c \in Chains : nonce[c] \in Nat /\ nonce'[c] \in Nat
                           /\ nonce'[c] >= nonce[c]
<1>1. nonce \in [Chains -> Nat]
  BY DEF TypeOK
<1>2. ASSUME NEW c \in Chains, SafeTransaction(c)
      PROVE  \A h \in Chains : nonce'[h] \in Nat /\ nonce'[h] >= nonce[h]
  BY <1>1, <1>2 DEF SafeTransaction
<1>3. nonce' = nonce \/ \E c \in Chains : SafeTransaction(c)
  <2>1. ASSUME NEW p \in signed, Pay(p)
        PROVE  \E c \in Chains : SafeTransaction(c)
    <3>1. p.source \in Chains
      BY DEF TypeOK, Payments
    <3> QED
      BY <2>1, <3>1 DEF Pay
  <2>2. ASSUME NEW c \in Chains, NEW s \in Settings, Reconfigure(c, s)
        PROVE  SafeTransaction(c)
    BY <2>2 DEF Reconfigure
  <2>3. ASSUME NEW c \in Chains, NEW n \in Amounts, OwnerTransfer(c, n)
        PROVE  SafeTransaction(c)
    BY <2>3 DEF OwnerTransfer
  <2>4. ASSUME NEW c \in Chains, Reject(c)
        PROVE  SafeTransaction(c)
    BY <2>4 DEF Reject
  <2>5. (\E c \in Chains : Tick(c)) \/ SignSomething(Chains) \/ ThirdParty \/ BridgeAdmin(Bridges)
          \/ UNCHANGED vars => nonce' = nonce
    BY DEF Tick, SignSomething, Sign, ThirdParty, BridgeAdmin, vars, policyVars
  <2> QED
    BY <2>1, <2>2, <2>3, <2>4, <2>5 DEF Next
<1> QED
  BY <1>1, <1>2, <1>3

(* Every step keeps the executed payments apart.                            *)
LEMMA NextNonces ==
  ASSUME TypeOK, NoncesUsed, [Next]_vars
  PROVE  NoncesUsed'
<1>1. \A c \in Chains : nonce[c] \in Nat /\ nonce'[c] \in Nat
                        /\ nonce'[c] >= nonce[c]
  BY NoncesGrow
<1>2. \A p \in executed : p.source \in Chains /\ p.nonce \in Nat
  BY DEF TypeOK, Payments
<1>3. CASE UNCHANGED <<spent, drawn, executed>>
  BY <1>1, <1>2, <1>3 DEF NoncesUsed, OnePerNonce
<1>4. ASSUME NEW p \in signed, Pay(p) PROVE NoncesUsed'
  <2>1. p.source \in Chains /\ p.nonce \in Nat
    BY DEF TypeOK, Payments
  <2>2. /\ executed' = executed \cup {p} /\ p.nonce = nonce[p.source]
        /\ SafeTransaction(p.source)
    BY <1>4 DEF Pay
  <2>3. nonce'[p.source] = nonce[p.source] + 1
    BY <2>1, <2>2 DEF SafeTransaction, TypeOK
  <2>4. \A q \in executed : q.source = p.source => q.nonce # p.nonce
    BY <1>1, <1>2, <2>1, <2>2 DEF NoncesUsed
  <2>5. OnePerNonce'
    BY <2>2, <2>4 DEF NoncesUsed, OnePerNonce
  <2>6. \A q \in executed' : q.nonce < nonce'[q.source]
    BY <1>1, <1>2, <2>1, <2>2, <2>3 DEF NoncesUsed
  <2> QED
    BY <2>5, <2>6 DEF NoncesUsed
<1> QED
  BY <1>3, <1>4, OnlyPayCharges

(* Two payments signed for one Safe nonce are never both paid.              *)
THEOREM RivalsExclude == Spec => []OnePerNonce
<1>1. Init => NoncesUsed
  BY DEF Init, NoncesUsed, OnePerNonce
<1>2. TypeOK /\ NoncesUsed /\ [Next]_vars => NoncesUsed'
  BY NextNonces
<1>3. NoncesUsed => OnePerNonce
  BY DEF NoncesUsed
<1> QED
  BY <1>1, <1>2, <1>3, TypeCorrect, PTL DEF Spec

-----------------------------------------------------------------------------
(* What was drawn is what was signed.                                       *)

(* What each payment takes from the Safe of a chain.                        *)
Shares(c) == [p \in Payments |-> From(c, p)]

PaidIn(e) == {p \in executed : p.epoch = e}

(* The sum of a set of payments, as a sum over a function.                  *)
LEMMA SharesSum ==
  ASSUME NEW c \in Chains, NEW S \in SUBSET Payments, IsFiniteSet(S)
  PROVE  MapThenSumSet(LAMBDA p : From(c, p), S) = SumOver(Shares(c), S)
<1> DEFINE SumsShares(g) ==
             g = [s \in SUBSET S |->
                    IF s = {} THEN 0
                    ELSE From(c, Pick(s)) + g[s \ {Pick(s)}]]
<1>1. MapThenSumSet(LAMBDA p : From(c, p), S)
        = (CHOOSE g : SumsShares(g))[S]
  BY DEF MapThenSumSet, MapThenFoldSet, Pick
<1>2. ASSUME NEW s \in SUBSET S, s # {}
      PROVE  Shares(c)[Pick(s)] = From(c, Pick(s))
  <2>1. Pick(s) \in Payments
    BY <1>2 DEF Pick
  <2> QED
    BY <2>1 DEF Shares
<1>3. ASSUME NEW g PROVE Sums(Shares(c), S, g) <=> SumsShares(g)
  <2>1. ASSUME NEW s \in SUBSET S
        PROVE  (IF s = {} THEN 0 ELSE Shares(c)[Pick(s)] + g[s \ {Pick(s)}])
                 = (IF s = {} THEN 0 ELSE From(c, Pick(s)) + g[s \ {Pick(s)}])
    BY <1>2
  <2>2. [s \in SUBSET S |->
           IF s = {} THEN 0 ELSE Shares(c)[Pick(s)] + g[s \ {Pick(s)}]]
          = [s \in SUBSET S |->
               IF s = {} THEN 0 ELSE From(c, Pick(s)) + g[s \ {Pick(s)}]]
    BY <2>1
  <2> QED
    BY <2>2 DEF Sums
<1>4. PICK h : SumsShares(h)
  BY <1>3, SumsExist
<1> DEFINE k == CHOOSE g : SumsShares(g)
<1>5. SumsShares(k)
  <2> HIDE DEF SumsShares
  <2> QED
    BY <1>4
<1> HIDE DEF SumsShares, k
<1>6. Sums(Shares(c), S, k) /\ S \in SUBSET S
  BY <1>3, <1>5
<1>7. SumOver(Shares(c), S) = k[S]
  BY <1>6, SumOverIs
<1> QED
  BY <1>1, <1>7 DEF k

(* Finitely many payments are signed, what was executed had a valid amount, *)
(* and each Safe's draw of an epoch is the sum of its signed shares.        *)
DrawnAsSigned ==
  /\ IsFiniteSet(signed)
  /\ \A p \in executed : AmountValid(p)
  /\ \A c \in Chains, e \in Epochs :
       drawn[c][e] = SumOver(Shares(c), PaidIn(e))

(* Only signing adds to what is signed, one payment at a time.              *)
LEMMA SignedFinite ==
  ASSUME IsFiniteSet(signed), [Next]_vars
  PROVE  IsFiniteSet(signed')
<1>1. ASSUME NEW p, signed' = signed \cup {p} PROVE IsFiniteSet(signed')
  BY <1>1, FS_AddElement
<1>2. CASE SignSomething(Chains)
  BY <1>1, <1>2 DEF SignSomething, Sign
<1>3. ASSUME NEW p \in signed, Pay(p) PROVE signed' = signed
  BY <1>3 DEF Pay
<1>4. ASSUME NEW c \in Chains, Tick(c) \/ Reject(c) PROVE signed' = signed
  BY <1>4 DEF Tick, Reject
<1>5. ASSUME NEW c \in Chains, NEW s \in Settings, Reconfigure(c, s)
      PROVE  signed' = signed
  BY <1>5 DEF Reconfigure
<1>6. ASSUME NEW c \in Chains, NEW n \in Amounts, OwnerTransfer(c, n)
      PROVE  signed' = signed
  BY <1>6 DEF OwnerTransfer
<1>7. ThirdParty \/ BridgeAdmin(Bridges) \/ UNCHANGED vars => signed' = signed
  BY DEF ThirdParty, BridgeAdmin, vars, policyVars
<1> QED
  BY <1>2, <1>3, <1>4, <1>5, <1>6, <1>7 DEF Next

(* A share is an amount, whatever the model's state.                        *)
LEMMA SharesType ==
  ASSUME NEW c \in Chains, NEW p \in Payments, AmountValid(p)
  PROVE  Shares(c)[p] = From(c, p) /\ Shares(c)[p] \in Nat
  BY DEF Shares, From, FromL2, AmountValid, Payments

(* Every step keeps the sums: a payment that is executed was not executed   *)
(* before, because its nonce was still unused.                              *)
LEMMA NextDrawn ==
  ASSUME TypeOK, NoncesUsed, DrawnAsSigned, [Next]_vars
  PROVE  DrawnAsSigned'
<1>1. IsFiniteSet(signed')
  BY SignedFinite DEF DrawnAsSigned
<1>2. CASE UNCHANGED <<spent, drawn, executed>>
  BY <1>1, <1>2 DEF DrawnAsSigned, PaidIn
<1>3. ASSUME NEW p \in signed, Pay(p) PROVE DrawnAsSigned'
  <2>1. /\ p \in Payments /\ AmountValid(p) /\ p.epoch = Epoch
        /\ executed' = executed \cup {p}
    BY <1>3 DEF Pay, EpochCurrent, TypeOK
  <2>2. p \notin executed
    <3>1. p.source \in Chains /\ p.nonce = nonce[p.source]
      BY <1>3, <2>1 DEF Pay, Payments
    <3>2. nonce[p.source] \in Nat
      BY <3>1 DEF TypeOK
    <3> QED
      BY <3>1, <3>2 DEF NoncesUsed
  <2>3. ASSUME NEW c \in Chains, NEW e \in Epochs
        PROVE  drawn'[c][e] = SumOver(Shares(c), PaidIn(e)')
    <3>1. drawn'[c][e] =
            IF e = p.epoch THEN drawn[c][e] + From(c, p) ELSE drawn[c][e]
      BY <1>3, <2>1, PayTyped DEF TypeOK
    <3>2. PaidIn(e) \in SUBSET Payments /\ IsFiniteSet(PaidIn(e))
          /\ p \notin PaidIn(e)
      <4>1. PaidIn(e) \in SUBSET signed /\ PaidIn(e) \in SUBSET Payments
        BY DEF PaidIn, TypeOK
      <4> QED
        BY <2>2, <4>1, FS_Subset DEF DrawnAsSigned, PaidIn
    <3>3. \A q \in PaidIn(e) \cup {p} : Shares(c)[q] \in Nat
      BY <2>1, <3>2, SharesType DEF DrawnAsSigned, PaidIn
    <3>4. drawn[c][e] = SumOver(Shares(c), PaidIn(e)) /\ drawn[c][e] \in Nat
      BY DEF DrawnAsSigned, TypeOK
    <3>5. CASE e = p.epoch
      <4>1. PaidIn(e)' = PaidIn(e) \cup {p}
        BY <2>1, <3>5 DEF PaidIn
      <4>2. SumOver(Shares(c), PaidIn(e) \cup {p})
              = Shares(c)[p] + SumOver(Shares(c), PaidIn(e))
        BY <3>2, <3>3, SumAdd
      <4>3. Shares(c)[p] = From(c, p) /\ Shares(c)[p] \in Nat
        BY <2>1, SharesType
      <4> QED
        BY <3>1, <3>4, <3>5, <4>1, <4>2, <4>3
    <3>6. CASE e # p.epoch
      <4>1. PaidIn(e)' = PaidIn(e)
        BY <2>1, <3>6 DEF PaidIn
      <4> QED
        BY <3>1, <3>4, <3>6, <4>1
    <3> QED
      BY <3>5, <3>6
  <2>4. \A q \in executed' : AmountValid(q)
    BY <2>1 DEF DrawnAsSigned
  <2> QED
    BY <1>1, <2>3, <2>4 DEF DrawnAsSigned
<1> QED
  BY <1>2, <1>3, OnlyPayCharges

(* Nothing is drawn at first.                                               *)
LEMMA InitDrawn == Init => DrawnAsSigned
<1> SUFFICES ASSUME Init PROVE DrawnAsSigned
  OBVIOUS
<1>1. IsFiniteSet(signed)
  BY FS_EmptySet DEF Init
<1>2. \A e \in Epochs : PaidIn(e) = {}
  BY DEF Init, PaidIn
<1>3. ASSUME NEW c \in Chains, NEW e \in Epochs
      PROVE  drawn[c][e] = SumOver(Shares(c), PaidIn(e))
  <2>1. drawn[c][e] = 0
    BY DEF Init
  <2> QED
    BY <1>2, <2>1, SumEmpty
<1> QED
  BY <1>1, <1>3 DEF DrawnAsSigned, Init

(* What left each Safe in an epoch is the sum of the shares its owners      *)
(* signed for that epoch, each counted once, and rivals for one Safe nonce  *)
(* exclude each other, for every number of payments and every split.        *)
THEOREM PaymentsExecuteOnce == Spec => []ExecutedOnce
<1>1. Init => DrawnAsSigned /\ NoncesUsed
  BY InitDrawn DEF Init, NoncesUsed, OnePerNonce
<1>2. TypeOK /\ NoncesUsed /\ DrawnAsSigned /\ [Next]_vars
        => DrawnAsSigned' /\ NoncesUsed'
  BY NextDrawn, NextNonces
<1>3. TypeOK /\ NoncesUsed /\ DrawnAsSigned => ExecutedOnce
  <2> SUFFICES ASSUME TypeOK, NoncesUsed, DrawnAsSigned PROVE ExecutedOnce
    OBVIOUS
  <2>1. ASSUME NEW c \in Chains, NEW e \in Epochs
        PROVE  drawn[c][e] = MapThenSumSet(LAMBDA p : From(c, p),
                                           {p \in executed : p.epoch = e})
    <3>1. PaidIn(e) \in SUBSET signed /\ PaidIn(e) \in SUBSET Payments
      BY DEF PaidIn, TypeOK
    <3>2. IsFiniteSet(PaidIn(e))
      BY <3>1, FS_Subset DEF DrawnAsSigned
    <3>3. MapThenSumSet(LAMBDA p : From(c, p), PaidIn(e))
            = SumOver(Shares(c), PaidIn(e))
      BY <3>1, <3>2, SharesSum
    <3> QED
      BY <3>3 DEF DrawnAsSigned, PaidIn
  <2> QED
    BY <2>1 DEF ExecutedOnce, NoncesUsed
<1> QED
  BY <1>1, <1>2, <1>3, TypeCorrect, PTL DEF Spec

-----------------------------------------------------------------------------
(* Refinement.                                                              *)

Out == [e \in Epochs |-> drawn["L1"][e] + drawn["L2"][e]]

(* The policy implements SpendingBudget: what the two Safes pay out is one  *)
(* budget per epoch, charged only in the current epoch, and epochs only     *)
(* advance.                                                                 *)
THEOREM PolicyImplementsBudget == Spec => ImplementsBudget
<1>1. Init => Budget!Init
  <2> SUFFICES ASSUME Init PROVE Budget!Init
    OBVIOUS
  <2>1. Epoch \in Epochs
    BY InitType, EpochType DEF TypeOK
  <2>2. Out = [e \in Epochs |-> 0]
    BY DEF Init, Out, Chains
  <2> QED
    BY <2>1, <2>2 DEF Budget!Init, Out
<1>2. ASSUME TypeOK, TypeOK', GlobalBudget, [Next]_vars
      PROVE  [Budget!Next]_<<Epoch, Out>>
  <2>1. Epoch \in Epochs /\ Epoch' \in Epochs
    <3>1. Epoch \in Epochs
      BY <1>2, EpochType DEF TypeOK
    <3>2. clock' \in [Chains -> Minutes]
      BY <1>2 DEF TypeOK
    <3>3. Epoch' \in Epochs
      <4>1. clock'["L2"] \in Nat /\ clock'["L2"] <= MaxTime /\ MaxTime \in Nat
        BY <3>2, PolicyAssumption DEF Chains, Minutes
      <4>2. clock'["L2"] \div PeriodMin \in 0..clock'["L2"]
        BY <4>1, DivBound, PolicyAssumption
      <4> QED
        BY <4>1, <4>2 DEF Epoch, Epochs
    <3> QED
      BY <3>1, <3>3
  <2>2. ASSUME NEW p \in signed, Pay(p) PROVE Budget!Spend
    <3>1. /\ p.amount \in Nat \ {0}
          /\ spent[Epoch] + p.amount <= GlobalLimit
          /\ \A e \in Epochs : drawn'["L1"][e] + drawn'["L2"][e] =
               drawn["L1"][e] + drawn["L2"][e]
                 + (IF e = Epoch THEN p.amount ELSE 0)
      BY <1>2, <2>2, PayCharges
    <3>2. spent[Epoch] \in Nat /\ Out[Epoch] = spent[Epoch]
      BY <1>2, <2>1 DEF TypeOK, GlobalBudget, Out
    <3>3. p.amount \in 1..GlobalLimit /\ Out[Epoch] + p.amount <= GlobalLimit
      BY <3>1, <3>2, PolicyAssumption
    <3>4. \A e \in Epochs : drawn["L1"][e] \in Nat /\ drawn["L2"][e] \in Nat
      BY <1>2 DEF TypeOK, Chains
    <3>5. Out' = [Out EXCEPT ![Epoch] = Out[Epoch] + p.amount]
      <4> DEFINE new == [Out EXCEPT ![Epoch] = Out[Epoch] + p.amount]
      <4>1. \A e \in Epochs : Out'[e] =
              drawn["L1"][e] + drawn["L2"][e]
                + (IF e = Epoch THEN p.amount ELSE 0)
        BY <3>1 DEF Out
      <4>2. \A e \in Epochs : new[e] =
              drawn["L1"][e] + drawn["L2"][e]
                + (IF e = Epoch THEN p.amount ELSE 0)
        BY <2>1, <3>1, <3>4 DEF Out
      <4>3. Out' = [e \in Epochs |-> Out'[e]] /\ new = [e \in Epochs |-> new[e]]
        BY DEF Out
      <4> QED
        BY <4>1, <4>2, <4>3
    <3>6. Epoch' = Epoch
      BY <2>2 DEF Pay, Epoch
    <3> QED
      BY <3>3, <3>5, <3>6 DEF Budget!Spend, Out
  <2>3. ASSUME UNCHANGED <<spent, drawn, executed>>
        PROVE  Budget!Advance \/ UNCHANGED <<Epoch, Out>>
    <3>1. Out' = Out
      BY <2>3 DEF Out
    <3>2. Epoch' >= Epoch
      <4>1. clock["L2"] \in Nat /\ PeriodMin \in Nat \ {0}
        BY <1>2, PolicyAssumption DEF TypeOK, Chains, Minutes
      <4>2. clock'["L2"] = clock["L2"] \/ clock'["L2"] = clock["L2"] + 1
        <5>1. ASSUME NEW c \in Chains, Tick(c)
              PROVE  clock'["L2"] = clock["L2"]
                       \/ clock'["L2"] = clock["L2"] + 1
          BY <1>2, <5>1 DEF Tick, TypeOK, Chains
        <5>2. (\A c \in Chains : ~Tick(c)) => clock' = clock
          BY <1>2 DEF Next, vars, policyVars, SignSomething, Sign, Pay,
             Reconfigure, OwnerTransfer, Reject, ThirdParty, BridgeAdmin
        <5> QED
          BY <5>1, <5>2
      <4>3. (clock["L2"] + 1) \div PeriodMin >= clock["L2"] \div PeriodMin
        BY <4>1, DivMonotone
      <4> QED
        BY <2>1, <4>2, <4>3 DEF Epoch, Epochs
    <3> QED
      BY <2>1, <3>1, <3>2 DEF Budget!Advance, Out, Epochs
  <2> QED
    BY <1>2, <2>2, <2>3, OnlyPayCharges DEF Budget!Next
<1> QED
  BY <1>1, <1>2, TypeCorrect, BudgetHolds, PTL
     DEF Spec, ImplementsBudget, Budget!Spec, Out
=============================================================================
