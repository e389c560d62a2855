SPECIFICATION Spec
CONSTANTS
  Clients = {c1}
  Managers = {m1}
  Supervisors = {v1}
  Creators = {c1, NULL}
  Sessions = {s1}
  Messages = {x1}
  Requests = {p1, p2}
  NULL = NULL
SYMMETRY Symmetry
INVARIANTS
  TypeOK
  StaffActWhereEntitled
  ClientsSpeakInTheirOwn
  MarkedByAnother
 
