\* One payment that is paid late or over the limit, and the job of every evening.
SPECIFICATION CutoffSpec
CONSTANTS
  a1 = a1  settle = settle
  NoPay = NoPay  NoOtp = NoOtp  NoAccount = NoAccount  Absent = Absent
  Settle = settle
  Payments = {p1}
  Handlers = {h1, cron}
  Cron = cron
  Accounts = {a1, settle}
  Sources = {a1}
  Challenges = {c1, c2}
  Amounts = {0, 1, 3}
  Limit = 2
  Opening <- OneAccount
  Batch = {p1}
  Ops <- Paying
  Overlap = TRUE
  Mortal = {}
  MaxRequests = 4
PROPERTIES CutoffReleases
CHECK_DEADLOCK FALSE
