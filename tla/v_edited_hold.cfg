\* A held payment is edited.
SPECIFICATION Spec
CONSTANTS
  a1 = a1  a2 = a2  settle = settle  p1 = p1
  NoPay = NoPay  NoOtp = NoOtp  NoAccount = NoAccount  Absent = Absent
  Settle = settle
  Payments = {p1}
  Handlers = {h1}
  Accounts = {a1, settle}
  Sources = {a1}
  Challenges = {c1, c2}
  Amounts = {0, 1, 3}
  Limit = 2
  Opening <- OneAccount
  Batch = {}
  Ops <- Everything
  Overlap = FALSE
  Mortal = {}
  MaxRequests = 6
SYMMETRY Slots
INVARIANTS HeldFundsReserved
CHECK_DEADLOCK FALSE
