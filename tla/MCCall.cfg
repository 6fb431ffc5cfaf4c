\* Three calls exist at most, two of them live and one freed with a pointer left to
\* it, or three live after two transfers; two subscriptions, so that a REFER replaces
\* another.
CONSTANTS
  Calls = {1, 2, 3}
  Notifiers = {1, 2}
  MaxCalls = 1
  AnswerModes = {"manual", "auto", "early"}
SPECIFICATION FairSpec
INVARIANTS NothingLeftBehind RingbackOwned
PROPERTIES IncomingEnds
