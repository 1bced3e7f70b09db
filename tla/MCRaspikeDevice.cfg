\* A program that has closed the link and makes no more calls stops.
SPECIFICATION Spec
CONSTANTS
  User = {u1, u2}
  PortA = A
  Port = {A, B}
  DeviceType = {motor, color}
  NoType = NoType
  NoPort = NoPort
  Nobody = Nobody
  MaxGets = 3
  MaxSession = 2
  MaxLinks = 2
SYMMETRY Interchangeable
CHECK_DEADLOCK FALSE
INVARIANTS TypeOK OneTypePerPort FreshCommandFindsDevice
PROPERTIES GotDeviceIsConfigured
