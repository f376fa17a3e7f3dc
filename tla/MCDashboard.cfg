SPECIFICATION Spec
CONSTANTS
  Tabs = {t1, t2}
  MaxConns = 2
  Scans = {s1, s2}
  Startup = s1
  Tests = {q1}
  Sections <- MCOneSection
  MaxDemand = 3
  Nothing = Nothing
SYMMETRY MCSymmetry
CHECK_DEADLOCK FALSE
INVARIANTS
  TypeOK
  RegisteredIsServed
  LiveUnlessCut
