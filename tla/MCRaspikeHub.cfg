\* Users that make no more calls stop.
SPECIFICATION Spec
CONSTANTS
  User = {u1, u2}
  Receiver = Receiver
  Nobody = Nobody
  Command = {"US_LGT_SET"}
  TextLength = {231, 235}
  Volume = {101}
  Duration = {0, 500}
  MaxCalls = 3
  MaxFrames = 1
  MaxLinks = 2
  MaxFailures = 2
  LinkCapacity = 2
SYMMETRY Interchangeable
CHECK_DEADLOCK FALSE
INVARIANTS TypeOK Untorn FallsSilent
