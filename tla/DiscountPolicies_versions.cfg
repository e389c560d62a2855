CONSTANTS
  Requests = {p1, p2, p3, p4}
  Buildings = {b1}
  Times = {1, 2, 3}
  Percents = {500, 11000}
  NULL = NULL
SPECIFICATION Spec
SYMMETRY Symmetry
CHECK_DEADLOCK FALSE
INVARIANTS TypeOK LatestInForce VersionsConsecutive
PROPERTY ClosedByNewer
