\* Users that make no more calls stop.
SPECIFICATION Spec
CONSTANTS
  User = {u1, u2}
  Nobody = Nobody
  Power = {50, 150}
  Limit = {100}
  MaxCalls = 3
  MaxReports = 1
  MaxLosses = 1
  LinkCapacity = 2
SYMMETRY Interchangeable
CHECK_DEADLOCK FALSE
INVARIANTS RestoresALimit
