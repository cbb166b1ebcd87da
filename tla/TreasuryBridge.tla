--------------------------- MODULE TreasuryBridge ---------------------------
(***************************************************************************)
(* The token ledger of the treasury and the TreasuryBridges that move it    *)
(* between L1 (canonical USDC) and L2 (wrapped USDC).                       *)
(*                                                                          *)
(* A bridge knows one peer, canonicalBridgeAddress, that its admin may      *)
(* replace at any time, and only demands that it has one.  Beside the       *)
(* treasury's pair there is therefore another bridge on each chain, of the  *)
(* same token and rollup and with a wrapped token of its own: a bridge of   *)
(* the pair can be pointed at it, used with it and pointed back.            *)
(*                                                                          *)
(* A cross-chain entry is synchronous and atomic: lockForL2 runs on L1      *)
(* inside the L2 transaction that mints, and any revert undoes both sides.  *)
(* An action is therefore one whole entry, and a refused entry is no step.  *)
(*                                                                          *)
(* Balances are kept for the accounts the contracts treat differently; all  *)
(* recipients and third parties of a chain are one account, "outsideL1" or  *)
(* "outsideL2".                                                             *)
(***************************************************************************)
EXTENDS Integers, FiniteSets

CONSTANTS InitialBalances,  \* the balances when the model starts
          InitialPeers,     \* canonicalBridgeAddress of each bridge, then
          MaxDeposits       \* bound on each nextDepositNonce

L1Bridges == {"bridgeL1", "otherL1"}
L2Bridges == {"bridgeL2", "otherL2"}
Bridges   == L1Bridges \cup L2Bridges
NoPeer    == "none"  \* the zero address

(* The bridges of the other chain.                                          *)
Opposite(b) == IF b \in L1Bridges THEN L2Bridges ELSE L1Bridges

(* The treasury's own pair.                                                 *)
Partner == [b \in {"bridgeL1", "bridgeL2"} |->
              IF b = "bridgeL1" THEN "bridgeL2" ELSE "bridgeL1"]

(* "bridgeL1" and "otherL1" hold the escrow of their bridges; the treasury's *)
(* L2 accounts hold the wrapped token of bridgeL2.  "otherL2" is all of the  *)
(* wrapped token of the other L2 bridge, in the hands of third parties.     *)
L1Accounts == {"safeL1", "alias", "bridgeL1", "otherL1", "outsideL1"}
L2Accounts == {"safeL2", "policy", "outsideL2"}
Accounts   == L1Accounts \cup L2Accounts \cup {"otherL2"}
Outside    == {"outsideL1", "outsideL2"}

(* Who may hold the wrapped token of an L2 bridge, and which of its holders *)
(* are third parties.                                                       *)
Holders(x)  == IF x = "bridgeL2" THEN L2Accounts ELSE {"otherL2"}
Stranger(x) == IF x = "bridgeL2" THEN "outsideL2" ELSE "otherL2"

(* totalSupply of the treasury's wrapped token, and of both.                *)
WrappedSupply(b) == b["safeL2"] + b["policy"] + b["outsideL2"]
AllWrapped(b)    == WrappedSupply(b) + b["otherL2"]

(* Canonical USDC locked in the two bridges, and all there is.              *)
Escrow(b) == b["bridgeL1"] + b["otherL1"]
CanonicalTotal(b) ==
  b["safeL1"] + b["alias"] + b["outsideL1"] + Escrow(b)

ASSUME BridgeAssumption ==
  /\ InitialBalances \in [Accounts -> Nat]
  /\ InitialBalances["bridgeL1"] >= WrappedSupply(InitialBalances)
  /\ InitialBalances["otherL1"] >= InitialBalances["otherL2"]
  /\ InitialPeers \in [Bridges -> Bridges \cup {NoPeer}]
  /\ \A b \in DOMAIN Partner : InitialPeers[b] = Partner[b]
  /\ MaxDeposits \in Nat

VARIABLES
  bal,              \* token balances, by account
  nextDepositNonce, \* the nonce of the next lock, of each L2 bridge
  lockedDeposits,   \* the nonces already locked, of each L1 bridge
  peer,             \* canonicalBridgeAddress, of each bridge
  repaired          \* history: the pair has been given other peers

ledgerVars == <<bal, nextDepositNonce, lockedDeposits>>
peerVars   == <<peer, repaired>>
bridgeVars == <<ledgerVars, peerVars>>

BridgeInit ==
  /\ bal = InitialBalances
  /\ nextDepositNonce = [x \in L2Bridges |-> 0]
  /\ lockedDeposits = [y \in L1Bridges |-> {}]
  /\ peer = InitialPeers
  /\ repaired = FALSE

(* A call between two bridges arrives when each is the other's peer: the    *)
(* caller asks the one it is configured with (bridgeFromL1 only demands a   *)
(* nonzero peer), and onlyBridgeProxy admits only the receiver's own peer.  *)
Paired(x, y) == peer[x] = y /\ peer[y] = x

(* ERC-20 transfer inside one chain.                                        *)
Transferred(b, from, to, n) == [b EXCEPT ![from] = @ - n, ![to] = @ + n]

(* Faults: the mint does not wait for the lock; the lock does not look at   *)
(* what arrived (InexactLock).                                              *)
MintedUnlockedFault(b, payer, y, to, n) == [b EXCEPT ![to] = @ + n]
MintedInexactFault(b, payer, y, to, n) ==
  [b EXCEPT ![payer] = @ - n, ![to] = @ + n]

(* Lock in y on L1, mint on L2 (bridgeTokens of the canonical token, or     *)
(* bridgeFromL1 from the payer's alias).                                    *)
Minted(b, payer, y, to, n) ==
  [b EXCEPT ![payer] = @ - n, ![y] = @ + n, ![to] = @ + n]

(* Burn on L2, release from y on L1 (bridgeTokens of the wrapped token).    *)
Released(b, holder, y, to, n) ==
  [b EXCEPT ![holder] = @ - n, ![y] = @ - n, ![to] = @ + n]

(* Fault: the nonce is not looked up (DepositAlreadyLocked).                *)
CanLockTwiceFault(b, x, y, payer, n) ==
  /\ Paired(x, y)
  /\ 0 < n /\ n <= b[payer]
  /\ nextDepositNonce[x] < MaxDeposits

(* bridgeFromL1 of x together with the lockForL2 it calls on y: `b` is the  *)
(* ledger the call sees, `payer` the funded alias.  x has its own next      *)
(* nonce, y its own set of locked ones: after a change of peers they are    *)
(* not of the same pair.                                                    *)
CanLock(b, x, y, payer, n) ==
  /\ Paired(x, y)
  /\ 0 < n /\ n <= b[payer]
  /\ nextDepositNonce[x] \notin lockedDeposits[y]
  /\ nextDepositNonce[x] < MaxDeposits

ConsumeDepositNonce(x, y) ==
  /\ nextDepositNonce' = [nextDepositNonce EXCEPT ![x] = @ + 1]
  /\ lockedDeposits' =
       [lockedDeposits EXCEPT ![y] = @ \cup {nextDepositNonce[x]}]

KeepDepositNonce == UNCHANGED <<nextDepositNonce, lockedDeposits>>

-----------------------------------------------------------------------------
(* What anybody may do with the bridges.  Third parties hold only the       *)
(* outside balances and the other wrapped token; they may pay the treasury, *)
(* or leave tokens on its contracts.                                        *)

(* An outsider funds its own alias, approves and calls bridgeFromL1.        *)
BridgeFromL1(x, y, n, to) ==
  /\ CanLock(bal, x, y, "outsideL1", n)
  /\ to \in Holders(x)
  /\ bal' = Minted(bal, "outsideL1", y, to, n)
  /\ ConsumeDepositNonce(x, y)
  /\ UNCHANGED peerVars

(* Bridge.bridgeTokens on L1 (external): deposit without a lock nonce.      *)
BridgeDeposit(x, y, n, to) ==
  /\ Paired(x, y)
  /\ n <= bal["outsideL1"]
  /\ to \in Holders(x)
  /\ bal' = Minted(bal, "outsideL1", y, to, n)
  /\ KeepDepositNonce
  /\ UNCHANGED peerVars

(* Bridge.bridgeTokens on L2 (external): withdrawal from the escrow of the  *)
(* bridge that is the peer now.                                             *)
BridgeWithdraw(x, y, n, to) ==
  /\ Paired(x, y)
  /\ n <= bal[Stranger(x)] /\ n <= bal[y]
  /\ to \in L1Accounts
  /\ bal' = Released(bal, Stranger(x), y, to, n)
  /\ KeepDepositNonce
  /\ UNCHANGED peerVars

(* A plain ERC-20 transfer by a third party, to any account of its chain:   *)
(* it may leave tokens on the policy, its alias or an escrow.               *)
OutsideTransfer(n, to) ==
  LET from == IF to \in L1Accounts THEN "outsideL1" ELSE "outsideL2"
  IN  /\ to \in (L1Accounts \cup L2Accounts) \ Outside
      /\ n <= bal[from]
      /\ bal' = Transferred(bal, from, to, n)
      /\ KeepDepositNonce
      /\ UNCHANGED peerVars

(* setCanonicalBridgeAddress by a bridge's admin (external), to a bridge of *)
(* the other chain or to none.  A sealed bridge has no admin any more.      *)
SetPeer(b, p) ==
  /\ p \in Opposite(b) \cup {NoPeer}
  /\ peer' = [peer EXCEPT ![b] = p]
  /\ repaired' = (repaired \/ (b \in DOMAIN Partner /\ p \notin {Partner[b], NoPeer}))
  /\ UNCHANGED ledgerVars
=============================================================================
