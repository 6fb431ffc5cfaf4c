\* Two timers besides the network timer, a tick that wraps after 4 ms, sleeps of
\* up to 2 ms and handlers of up to 3 ms: two wraps before the horizon.
CONSTANTS
  Timers = {net, t1, t2}
  Net = net
  NetInterval = 4
  Delays = {0, 1, 3}
  MaxTime = 2
  Width = 4
  MaxBusy = 3
  Horizon = 7
SPECIFICATION Spec
SYMMETRY UserTimers
INVARIANTS ClockTrue ThMeansLinked InOrder NotEarly WakesInTime
PROPERTIES Served
CHECK_DEADLOCK FALSE
