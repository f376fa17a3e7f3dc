SPECIFICATION FairSpec
CONSTANTS
  IPs = {i1, i2}
  Target = i1
  Macs = {m1, m2}
  Ports = {p1, p2, p3}
  Slots = 2
  Options <- MCOptions
  Nothing = Nothing
CHECK_DEADLOCK FALSE
INVARIANTS
  TypeOK
  ResultIsHeard
  ArpWins
  VendorOfMac
PROPERTIES
  NothingDropped
  ScanEnds
