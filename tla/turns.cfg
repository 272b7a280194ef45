\* One request at a time about a payment, two payments side by side; the requests
\* about p1 may die, and p2 may be edited.
SPECIFICATION FairSpec
CONSTANTS
  a1 = a1  a2 = a2  settle = settle  p1 = p1
  NoPay = NoPay  NoOtp = NoOtp  NoAccount = NoAccount  Absent = Absent
  Settle = settle
  Payments = {p1, p2}
  Handlers = {h1, h2}
  Accounts = {a1, settle}
  Sources = {a1}
  Challenges = {c1, c2}
  Amounts = {0, 1, 2}
  Limit = 1
  Opening <- SmallAccount
  Batch = {p1}
  Ops <- SomeEdits
  Overlap = FALSE
  Mortal = {p1}
  MaxRequests = 6
INVARIANTS PostedOnce LimitHolds ApprovalFollowsReview RiskGate
PROPERTIES LifecycleSpec SettledIsFinal RequestsFinish
CHECK_DEADLOCK FALSE
