SPECIFICATION Spec
CONSTANTS
  None = None
  NoSession = NoSession
  ip1 = ip1
  ip2 = ip2
  macA = macA
  macB = macB
  macR = macR
  NasVendors = {"Synology"}
  ApVendors = {}
  PrinterTypes = {"_ipp._tcp"}
  RouterTypes = {"InternetGatewayDevice"}
  GraceDays = 0
  Sessions = {s1}
  Errands = {"persist"}
  Hosts <- MCHosts
  Services <- MCServices
  Scans <- MCScans
  MaxRuns = 3
  MaxDay = 1
SYMMETRY MCSymmetry
CONSTRAINT OneKind
CHECK_DEADLOCK FALSE
INVARIANTS
  MacIdentityStable
  GraceRespected
  DeviceRowsInSync
  EventsReplay
