CONSTANTS
  k1 = k1  k2 = k2  k3 = k3  k4 = k4  k5 = k5  k6 = k6
  Keys = {k1, k2, k3}
  Data = {d1}
  NULL = NULL
  Hash <- MCHashSame
  Width = 5
  Probe = 2
  Capacities = {0, 3}
SPECIFICATION Spec
INVARIANT IterateStopsOnNonZero
