\* One challenge with a request at a time, one with two, and deaths.
SPECIFICATION Spec
CONSTANTS
  c1 = c1
  Ids = {c1, c2}
  Serial = {c1}
  Users = {u1, u2}
  Handlers = {h1, h2}
  MaxAttempts = 3
  MaxResends = 1
  MaxRequests = 8
  NoUser = NoUser
  NoId = NoId
SYMMETRY HandlersAlike
INVARIANTS TypeOK AcceptedBounded ResendsBounded RefusalsBounded
PROPERTIES UsedIsFinal BindingFinal TokenSpec
CHECK_DEADLOCK FALSE
