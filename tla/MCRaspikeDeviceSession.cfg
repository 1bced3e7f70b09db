SPECIFICATION Spec
CONSTANTS
  User = {u1, u2}
  PortA = A
  Port = {A, B}
  DeviceType = {motor, color}
  NoType = NoType
  NoPort = NoPort
  Nobody = Nobody
  MaxGets = 2
  MaxSession = 2
  MaxLinks = 1
SYMMETRY Interchangeable
CHECK_DEADLOCK FALSE
PROPERTIES GotDeviceIsUsable
