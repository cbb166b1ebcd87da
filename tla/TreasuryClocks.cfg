SPECIFICATION ClocksSpec
CONSTANTS
  PeriodMin = 2
  GlobalLimit = 3
  SafeLimit = 2
  Settings <- AlignedSettings
  InitialBalances <- MCBalances
  InitialPeers <- MCPeersAlone
  Amounts = {0, 1, 2}
  Payees = {"outsideL1"}
  StartTime = 2
  MaxTime = 5
  MaxNonce = 2
  MaxSigned = 2
  MaxDeposits = 3
INVARIANTS TypeOK ExecutedOnce GlobalBudget
PROPERTIES WithinSafeAllowance ImplementsBudget
CHECK_DEADLOCK FALSE
