CONSTANTS
  Offers = {o1, o2}
  RequestIds = {r1, r2}
  Supervisors = {v1}
  NULL = NULL
  Requests = {p1, p2}
  Deliveries = {x1, x2}
SPECIFICATION Spec
INVARIANTS
  TypeOK
  MailedIsEntitled
  SentWasAccepted
 
CHECK_DEADLOCK FALSE
