\* Pages of makers, a checker, keepers of payees and visitors, one scene each.
SPECIFICATION FairSpec
CONSTANTS
  t1 = t1  t2 = t2  maker = maker  checker = checker  b1 = b1  p1 = p1  p2 = p2
  n1 = n1  n2 = n2  Ann = Ann  Ben = Ben
  NoNumber = NoNumber  NoName = NoName  NoPay = NoPay  NoUser = NoUser  NoTab = NoTab
  Nothing = Nothing
  Payees = {b1}
  Numbers = {n1, n2}
  Names = {Ann, Ben}
  HolderOf <- Holders
  Payments = {p1, p2}
  Amounts = {40000, 60000, 3000000}
  Limit = 2500000
  Users = {maker, checker}
  Authorizers = {checker}
  Slots = {1, 2}
  ModelOn = TRUE
  Tabs = {t1, t2}
  Watchers = 2
  Presets = 2
  Scenes <- AllScenes
INVARIANTS TypeOK CoolingPeriod PaidAccountReviewed DialogOwnsAnswers OutcomeTruthful ActsAsShown
PROPERTIES NeverStuck
CHECK_DEADLOCK FALSE
