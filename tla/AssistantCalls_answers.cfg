CONSTANTS
  client = client
  manager = manager
  stranger = stranger
  first = first
  Requests = {first, c2}
  CallersOf <- ClientFirst
  Actors = {client, manager, stranger}
  Role <- Roles
  Sessions = {s1}
  Session <- Shared
  Deals = {d1}
  Deal <- TheirDeal
  Links = {l1, l2}
  Limit = 1
  None = None
SPECIFICATION CallsSpec
INVARIANTS  AssistantStaysApart
PROPERTY CallsEnd
