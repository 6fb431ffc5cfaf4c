\* One subscription in use and one given up; three failures before the loop guard.
CONSTANTS
  Subs = {1, 2}
  LoopMax = 3
SPECIFICATION FairSpec
INVARIANTS Attended
PROPERTIES ImplementsContract
CHECK_DEADLOCK FALSE
