CONSTANTS
  Managers = {m1}
  Supervisors = {v1}
  Deals = {d1}
  Offers = {o1, o2}
  RequestIds = {r1, r2}
  Selections = {none}
  Requests = {p1, p2}
  Discounts = {700}
  Limits = {500, 1000}
  Prices = {10}
  NULL = NULL
  DealEmployee <- OneManager
  Callers <- OwnIds
SPECIFICATION Spec
INVARIANTS
  TypeOK
  VersionsAreConsecutive
  AnswersAgree
  EntitledApproval
PROPERTY KeepsLifecycle
SYMMETRY Symmetry
