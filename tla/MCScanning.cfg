SPECIFICATION Spec
CONSTANTS
  Tabs = {t1, t2}
  MaxConns = 1
  Scans = {s1}
  Startup = s1
  Tests = {}
  Sections <- MCSections
  MaxDemand = 3
  Nothing = Nothing
CHECK_DEADLOCK FALSE
INVARIANT ScanningMeansScan
