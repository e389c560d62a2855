CONSTANTS
  Complexes = {x1}
  Buildings = {b1, b2}
  Apartments = {a1}
  NULL = NULL
  Clients = {c1}
  Deals = {d1, d2}
  ClientOf <- OneClient
  ApartmentOf <- OneApartment
  Stages = {s1}
  Moves <- Cycle
  States <- Reports
  Updates = {u1, u2}
SPECIFICATION Spec
CHECK_DEADLOCK FALSE
INVARIANTS TypeOK ToldOncePerChange
 
