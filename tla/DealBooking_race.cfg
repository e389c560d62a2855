CONSTANTS
  Clients = {c1}
  Managers = {m1}
  Supervisors = {}
  Apartments = {a1}
  Sessions = {s1}
  Deals = {d1, d2}
  Requests = {p1, p2}
  Discounts = {0}
  Limits = {}
  ManagerMax = 500
  SupervisorMax = 1500
  Prices = {10000}
  StaffEdits = TRUE
  NULL = NULL
  SessionClient <- OneClient
  Moves <- AllMoves
SPECIFICATION Spec
INVARIANTS
  TypeOK
  SessionStageHasDeal
  WithheldApartmentHasDeal
SYMMETRY Symmetry
VIEW WithoutLogs
