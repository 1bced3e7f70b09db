SPECIFICATION FairSpec
CONSTANTS
  r1 = r1
  r2 = r2
  s1 = s1
  s2 = s2
  A = A
  B = B
  Main = Main
  Nobody = Nobody
  Receiver <- TwoReceivers
  Sender <- TwoSenders
  Opener <- OneSender
  Port <- TwoPorts
  MaxLinks = 2
  MaxCalls = 2
INVARIANTS TypeOK ReceiverHasLink SenderHasLink NoWaitOnClosedLink DeviceOfThisLink
PROPERTIES OnlyGetDeviceStopsShutdown PortReleased
