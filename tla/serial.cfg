\* One request at a time, nobody edits; money may also leave the settlement
\* account, and a request may die anywhere.
SPECIFICATION Spec
CONSTANTS
  a1 = a1  a2 = a2  settle = settle  p1 = p1
  NoPay = NoPay  NoOtp = NoOtp  NoAccount = NoAccount  Absent = Absent
  Settle = settle
  Payments = {p1, p2}
  Handlers = {h1}
  Accounts = {a1, settle}
  Sources = {a1, settle}
  Challenges = {c1, c2, c3}
  Amounts = {0, 1, 3}
  Limit = 2
  Opening <- OneAccount
  Batch = {}
  Ops <- NoEdits
  Overlap = FALSE
  Mortal = {p1, p2}
  MaxRequests = 7
SYMMETRY AllSlots
INVARIANTS StatementChain Conservation HeldFundsReserved
CHECK_DEADLOCK FALSE
