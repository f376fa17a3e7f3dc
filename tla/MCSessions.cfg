SPECIFICATION FairSpec
CONSTANTS
  None = None
  NoSession = NoSession
  ip1 = ip1
  ip2 = ip2
  macA = macA
  NasVendors = {}
  ApVendors = {}
  PrinterTypes = {}
  RouterTypes = {}
  GraceDays = 1
  Sessions = {s1, s2}
  Errands = {"persist", "baseline", "background", "pin", "last", "since"}
  Hosts <- MCHosts
  Services = {}
  Scans <- MCScans
  MaxRuns = 2
  MaxDay = 0
INVARIANTS
  TypeOK
  TransactionInv
  BaselineUnique
  UniquePrimaryMac
  RunsComplete
  ReportWhole
  ReportResolved
PROPERTIES
  BaselineKept
  HistoryAppendOnly
  ImplementsLedger
  JobsFinish
