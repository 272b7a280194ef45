\* Two handlers on the same payments, in any order, each of which may die.
SPECIFICATION Spec
CONSTANTS
  a1 = a1  a2 = a2  settle = settle  p1 = p1
  NoPay = NoPay  NoOtp = NoOtp  NoAccount = NoAccount  Absent = Absent
  Settle = settle
  Payments = {p1, p2}
  Handlers = {h1, h2}
  Accounts = {a1, a2, settle}
  Sources = {a1, a2}
  Challenges = {c1, c2}
  Amounts = {0, 1, 2}
  Limit = 1
  Opening <- TwoAccounts
  Batch = {}
  Ops <- Everything
  Overlap = TRUE
  Mortal = {p1, p2}
  MaxRequests = 6
SYMMETRY EverySlot
INVARIANTS TypeOK AuthorisedPosting BlockedIsReported
CHECK_DEADLOCK FALSE
