SPECIFICATION FairSpec
CONSTANTS
  t1 = t1
  t2 = t2
  p = p
  Tabs = {t1, t2}
  Paying = {t1}
  Payments = {p}
  MaxSent = 2
  MaxBlock = 1
  MaxFaults = 1
INVARIANTS TypeOK SlotNamesIt OneUnderway HistoryHas
PROPERTIES HashesKept Recovered
CHECK_DEADLOCK FALSE
