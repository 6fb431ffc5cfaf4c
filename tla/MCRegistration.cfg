\* Two clients, the second one replaces the first; an interval of 120 s of which
\* the registrar grants all or 100 s, and says so, is silent about it (then the
\* client goes by 180 s, for 3600 s in the code: longer than any grant), or lists a
\* Contact the client does not know; two lost, refused or failed requests.
CONSTANTS
  Clients = {1, 2}
  Interval = 120
  Grants = {100, 120}
  MinExpires = 150
  DefaultExpires = 180
  LoopMax = 3
  Outbound = TRUE
  Tick = 10000
  MaxFaults = 2
SPECIFICATION FairSpec
INVARIANTS Attended StatusTrue RefreshedInTime Unbound
PROPERTIES Rebound
CHECK_DEADLOCK FALSE
