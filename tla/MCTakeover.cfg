SPECIFICATION Spec
CONSTANTS
  None = None
  NoSession = NoSession
  ip1 = ip1
  ip2 = ip2
  macA = macA
  macB = macB
  macR = macR
  NasVendors = {}
  ApVendors = {}
  PrinterTypes = {}
  RouterTypes = {}
  GraceDays = 0
  Sessions = {s1}
  Errands = {"persist"}
  Hosts <- Wanderers
  Services = {}
  Scans <- WanderingScans
  MaxRuns = 2
  MaxDay = 0
SYMMETRY MCSymmetry
CHECK_DEADLOCK FALSE
INVARIANTS
  StableMacsApart
