SPECIFICATION FairSpec
CONSTANTS
  Tabs = {t1}
  MaxConns = 2
  Scans = {s1}
  Startup = s1
  Tests = {}
  Sections <- MCOneSection
  MaxDemand = 3
  Nothing = Nothing
CHECK_DEADLOCK FALSE
PROPERTIES
  LostIsForgotten
  TasksEnd
