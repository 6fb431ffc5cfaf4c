\* UDP and TCP; two SRV records with up to two addresses each.
CONSTANTS
  Transports = 2
  MaxRecords = 2
SPECIFICATION FairSpec
INVARIANTS CancelStops CancelHasDeadline
PROPERTIES ImplementsContract
CHECK_DEADLOCK FALSE
