\* Two responses of the callee may fail to be sent.
CONSTANT MaxFailed = 2
SPECIFICATION FairSpec
INVARIANTS ToldOnce Agreement RingsOnce CancelHasDeadline
PROPERTIES Reclaimed ImplementsContract
CHECK_DEADLOCK FALSE
