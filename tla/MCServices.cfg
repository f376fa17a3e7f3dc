SPECIFICATION FairSpec
CONSTANTS
  i1 = i1
  i2 = i2
  u1 = u1
  u2 = u2
  IPs = {i1, i2, i3}
  Target = i1
  Names = {n1}
  Replies <- MCReplies
  Slots = 2
  Options <- MCOptions
  Community = Community
  MaxNotices = 2
  Nothing = Nothing
CHECK_DEADLOCK FALSE
INVARIANTS
  TypeOK
  HeardIsReported
  OncePerUsn
PROPERTIES
  ServicesEnd
