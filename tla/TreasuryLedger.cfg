SPECIFICATION LedgerSpec
CONSTANTS
  PeriodMin = 2
  GlobalLimit = 3
  SafeLimit = 2
  Settings = {}
  InitialBalances <- MCBalancesUnit
  InitialPeers <- MCPeersWaiting
  Amounts = {0, 1, 2}
  Payees = {"outsideL1", "outsideL2", "bridgeL1"}
  StartTime = 2
  MaxTime = 2
  MaxNonce = 1
  MaxSigned = 1
  MaxDeposits = 2
INVARIANTS Backing Conserved NoncesAgree
PROPERTIES DeliversExactly
CHECK_DEADLOCK FALSE
