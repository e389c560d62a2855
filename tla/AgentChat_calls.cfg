CONSTANTS
  Offers = {1, 2, 3}
  RequestIds = {1, 2, 3, 4, 5, 6}
  Supervisors = {v1}
  Tasks = {1}
  Works = {c1}
  Calls = {c1}
  MaxRetries = 1
  MaxLosses = 2
  NULL = NULL
SPECIFICATION Spec
INVARIANTS
  TypeOK
  ToldIsDone
  WorkIsBounded
PROPERTY RequestsLeave
CHECK_DEADLOCK FALSE
