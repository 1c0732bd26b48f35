SPECIFICATION Spec
CONSTANTS
  Workers = {w1, w2}
  Sessions = {s1, s2}
  Tokens = {t1, t2, t3, t4}
  Links = {k1, k2}
  Nobody = Nobody
  MaxAttempts = 2
  MaxCalls = 6
SYMMETRY Symmetry
INVARIANTS
  AuthTypeOK
  TokensFollowThePassword
PROPERTIES
  SessionsAreFamilies
  SignedOutStaysOut
  LocksHold
CHECK_DEADLOCK FALSE
