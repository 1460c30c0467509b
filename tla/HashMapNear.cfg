CONSTANTS
  k1 = k1  k2 = k2  k3 = k3  k4 = k4  k5 = k5  k6 = k6
  Keys = {k1, k2, k3, k4, k5, k6}
  Data = {d1}
  NULL = NULL
  Hash <- MCHashNear
  Width = 5
  Probe = 3
  Capacities = {2}
SPECIFICATION Spec
INVARIANTS InWindow RehashNeverNests
