\* One user with a request at a time, each of which may die, and one with two.
SPECIFICATION Spec
CONSTANTS
  u1 = u1  u2 = u2  a = a
  Users = {u1, u2}
  Serial = {u1}
  Mortal = {u1}
  Handlers = {h1, h2}
  Kinds = {"LOGIN", "TXN"}
  Passwords = {a, b, c}
  Initial = a
  Challenges = {c1, c2}
  Window = 2
  MaxFailures = 2
  MaxRequests = 5
  NoUser = NoUser
  NoOtp = NoOtp
SYMMETRY Alike
INVARIANTS TypeOK LockedAtLimit FailuresBounded UnlocksEarned NoReuse
CHECK_DEADLOCK FALSE
