CONSTANTS
  Clients = {c1, c2}
  Managers = {m1, m2}
  Supervisors = {}
  Apartments = {a1}
  Sessions = {s1}
  Deals = {d1}
  Requests = {p1, p2}
  Discounts = {0, 4995}
  Limits = {300}
  ManagerMax = 500
  SupervisorMax = 1500
  Prices = {10600}
  StaffEdits = FALSE
  NULL = NULL
  SessionClient <- OneClient
  Moves <- Terms
SPECIFICATION Spec
INVARIANTS
  TotalMatchesDiscount
  DiscountWithinLimit
  DealHasItsApplication
  AnnouncedWasCommitted
PROPERTIES
  OnlyPartiesMoveDeals
  
SYMMETRY WithManagers
VIEW ManagersOnly
