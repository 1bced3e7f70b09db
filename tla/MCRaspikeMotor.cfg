\* Users that make no more calls stop.
SPECIFICATION Spec
CONSTANTS
  User = {u1, u2}
  Nobody = Nobody
  Power = {150}
  Limit = {100}
  MaxCalls = 3
  MaxReports = 1
  MaxLosses = 1
  LinkCapacity = 2
VIEW Live
SYMMETRY Interchangeable
CHECK_DEADLOCK FALSE
INVARIANTS TypeOK CountOfThisReset StopHolds PowerIsApplied
