SPECIFICATION Spec
CONSTANTS
  N = 2
  Threads = {t1, t2}
INVARIANT SentWithClaim
CHECK_DEADLOCK FALSE
